---- MODULE Spec2Model ----
(***************************************************************************)
(* Filegate: path gate (src/src/lib/path.ts), chunked upload engine        *)
(* (src/unnamed/part_003) and index store / scanner (src/unnamed/part_001, *)
(* src/src/lib/scanner.ts), modelled as three state machines that share    *)
(* one module.  Each subsystem has its own specification (SpecPath,        *)
(* SpecUpload, SpecJanitor for the upload engine with its janitor on the   *)
(* clock, SpecIndex); the variables of the other subsystems stay at their  *)
(* initial value.                                                          *)
(***************************************************************************)
EXTENDS Integers, Sequences, FiniteSets, TLC

VARIABLES
  \* ---- path gate ----
  fs,            \* the filesystem: real path -> node (dir, file or symlink)
  realBaseCache, \* Map<string,string> of path.ts: clean base -> realpath(base)
  lastReq,       \* the validatePath call made: its input, options, result and effects
  \* ---- upload engine ----
  now,           \* Date.now(), in ticks
  staging,       \* uploadTempDir: uploadId -> its directory (meta.json, chunks, .tmp files)
  dest,          \* the destination file join(meta.path, meta.filename)
  sem,           \* getSemaphore("assemble:<uploadId>", 1): uploadId -> taken
  req,           \* the requests in flight: slot -> handler position and locals
  issued,        \* number of upload/chunk requests received so far
  jan,           \* cleanupOrphanedChunks: its position and locals
  hist,          \* history: per uploadId, what has happened to the session
  \* ---- file index ----
  disk,          \* the entries under the base: relative path -> inode (0: no such entry)
  dirMtime,      \* directory -> its mtime (changes when an entry is added, renamed or removed)
  nextIno,       \* the inode the next new file or directory gets
  moves,         \* number of renames and removals done so far
  fileIndex,     \* table file_index: rows [id, path, ino, stale]
  scanState,     \* table scan_state: directory -> mtime_ms of its row (-1: no row)
  nextId,        \* generateId(): the next fresh id
  scan,          \* scanBasePath: its position and locals
  lastOutcome,   \* the id last reported for a file, and the file's inode
  firstId,       \* history: inode -> the id first reported for it (0: none yet)
  scanHist,      \* history: the last rename and whether a scan has run since
  calls,         \* indexFile calls in flight: caller -> position and locals
  \* ---- transfers ----
  tSub,          \* base -> whether the destination's parent directory exists in it
  tSrc,          \* the source files of the first base: name -> content
  tDst,          \* base -> the destination directory: name -> content
  tReq,          \* the POST /transfer requests in flight: slot -> position and locals
  tIssued,       \* number of transfer requests received so far
  \* ---- scans with their workers ----
  scans,         \* the scanBasePath calls in flight: scan -> position, queue and workers
  table,         \* table file_index with its times: rows [id, path, ino, at]
  \* ---- the upload client ----
  client         \* a ChunkedUpload object and the sendAll call running on it

pathVars == <<fs, realBaseCache, lastReq>>

uploadVars == <<now, staging, dest, sem, req, issued, jan, hist>>

indexVars == <<disk, dirMtime, nextIno, moves, fileIndex, scanState, nextId, scan,
              lastOutcome, firstId, scanHist, calls>>

transferVars == <<tSub, tSrc, tDst, tReq, tIssued>>

poolVars == <<scans, table>>

clientVars == <<client>>

vars == <<fs, realBaseCache, lastReq, now, staging, dest, sem, req, issued, jan, hist,
         disk, dirMtime, nextIno, moves, fileIndex, scanState, nextId, scan,
         lastOutcome, firstId, scanHist, calls, tSub, tSrc, tDst, tReq, tIssued,
         scans, table, client>>

(***************************************************************************)
(* Bounds of the model.                                                    *)
(***************************************************************************)
MaxDepth == 3          \* longest input path, in segments
MaxSymlinkHops == 2    \* symlinks followed by one realpath before ELOOP
MaxRequests == 3       \* upload/chunk requests received per behaviour
MaxTime == 2           \* last tick of the clock
ExpiryTicks == 1       \* config.uploadExpirySecs * 1000, in ticks
MaxInodes == 2         \* files and directories ever created under the base
MaxMoves == 2          \* renames and removals per behaviour
MaxTransfers == 2      \* POST /transfer requests received per behaviour
MaxNameLen == 2        \* longest directory name given to removeFromIndexRecursive
TotalChunks == 3       \* totalChunks of the client's ChunkedUpload
MaxConcurrency == 2    \* largest concurrency given to sendAll
MaxRetries == 1        \* largest retries given to sendAll

(***************************************************************************)
(* Paths.  A path is the sequence of its segments; <<>> is "/".  With      *)
(* segments that hold no "/", the string test p.startsWith(b + "/") is     *)
(* "b is a proper prefix of p, segment by segment".                        *)
(***************************************************************************)
Names == {"base", "out", "lnk", "d"}
Segments == Names \cup {".."}

SeqsUpTo(S, n) == UNION {[1..k -> S] : k \in 0..n}

IsPrefix(b, p) == Len(b) <= Len(p) /\ SubSeq(p, 1, Len(b)) = b

\* cleaned === cleanBase
PathEquals(p, b) == p = b

\* cleaned.startsWith(cleanBase + "/")
StartsWithSlash(p, b) == Len(p) > Len(b) /\ SubSeq(p, 1, Len(b)) = b

dirname(p) == IF p = <<>> THEN <<>> ELSE SubSeq(p, 1, Len(p) - 1)
basename(p) == IF p = <<>> THEN <<>> ELSE <<p[Len(p)]>>

\* node:path normalize on an absolute path: ".." drops the segment before it,
\* and stays at "/" when there is none.
RECURSIVE NormalizeFrom(_, _)
NormalizeFrom(done, rest) ==
  IF rest = <<>> THEN done
  ELSE IF Head(rest) = ".."
       THEN NormalizeFrom(dirname(done), Tail(rest))
       ELSE NormalizeFrom(Append(done, Head(rest)), Tail(rest))

normalize(p) == NormalizeFrom(<<>>, p)

\* config.allowedPaths, in configuration order: a directory, and a path that
\* is a symlink to that directory
allowedPaths == << <<"base">>, <<"lnk">> >>

(***************************************************************************)
(* The filesystem.                                                         *)
(***************************************************************************)
ServiceUid == "svc"    \* owner of whatever the service creates
RequestUid == "req"    \* owner named by a request's ownership fields

\* modes of what the service creates under umask 022 (0o755, 0o644, 0o777)
DefaultDirMode == 493
DefaultFileMode == 420
LinkMode == 511

DirNode == [kind |-> "dir", target |-> <<>>, uid |-> ServiceUid, mode |-> DefaultDirMode]
FileNode == [kind |-> "file", target |-> <<>>, uid |-> ServiceUid, mode |-> DefaultFileMode]
LinkNode(t) == [kind |-> "link", target |-> t, uid |-> ServiceUid, mode |-> LinkMode]

Exists(f, p) == p = <<>> \/ p \in DOMAIN f
KindOf(f, p) == IF p = <<>> THEN "dir" ELSE f[p].kind

\* realpath(3): every segment must exist; symlinks are followed (their targets
\* are absolute); a file in the middle is ENOTDIR; too many links is ELOOP.
RECURSIVE Resolve(_, _, _, _)
Resolve(f, done, rest, fuel) ==
  IF rest = <<>> THEN [err |-> "OK", path |-> done]
  ELSE LET cand == Append(done, Head(rest)) IN
       IF ~Exists(f, cand) THEN [err |-> "ENOENT", path |-> <<>>]
       ELSE IF KindOf(f, cand) = "link"
            THEN IF fuel = 0 THEN [err |-> "ELOOP", path |-> <<>>]
                 ELSE Resolve(f, <<>>, f[cand].target \o Tail(rest), fuel - 1)
            ELSE IF KindOf(f, cand) = "file" /\ Tail(rest) # <<>>
                 THEN [err |-> "ENOTDIR", path |-> <<>>]
                 ELSE Resolve(f, cand, Tail(rest), fuel)

realpath(f, p) == Resolve(f, <<>>, p, MaxSymlinkHops)

\* mkdir(p, {recursive: true}): existing directories (also behind symlinks) are
\* entered, missing ones are created where the walk stands; a file or a
\* dangling link on the way makes the call throw.
RECURSIVE MkdirWalk(_, _, _, _)
MkdirWalk(f, done, rest, created) ==
  IF rest = <<>> THEN [ok |-> TRUE, fs |-> f, created |-> created]
  ELSE LET cand == Append(done, Head(rest)) IN
       IF ~Exists(f, cand)
       THEN MkdirWalk((cand :> DirNode) @@ f, cand, Tail(rest), created \cup {cand})
       ELSE IF KindOf(f, cand) = "dir"
            THEN MkdirWalk(f, cand, Tail(rest), created)
            ELSE IF KindOf(f, cand) = "link"
                 THEN LET r == realpath(f, cand) IN
                      IF r.err = "OK" /\ KindOf(f, r.path) = "dir"
                      THEN MkdirWalk(f, r.path, Tail(rest), created)
                      ELSE [ok |-> FALSE, fs |-> f, created |-> created]
                 ELSE [ok |-> FALSE, fs |-> f, created |-> created]

mkdirRecursive(f, p) ==
  LET w == MkdirWalk(f, <<>>, p, {}) IN
  IF w.ok THEN w ELSE [ok |-> FALSE, fs |-> f, created |-> {}]

(***************************************************************************)
(* Ownership (src/src/lib/scanner.ts holds the text of lib/ownership.ts).  *)
(***************************************************************************)
\* an Ownership: given = FALSE is null; mode and dirMode are octal modes as
\* numbers, NoDirMode is "dirMode undefined"
NoDirMode == -1

NullOwnership == [given |-> FALSE, mode |-> 0, dirMode |-> NoDirMode]

\* fileMode & bit
HasBit(m, bit) == (m \div bit) % 2 = 1

\* dirMode |= bit
SetBit(m, bit) == IF HasBit(m, bit) THEN m ELSE m + bit

\* a derivation that adds x for every principal, readable or not
fileModeToDirectoryModeAllExec(fileMode) == SetBit(SetBit(SetBit(fileMode, 64), 8), 1)

\* fileModeToDirectoryMode: x is added where r is set (0o400 -> 0o100,
\* 0o040 -> 0o010, 0o004 -> 0o001)
fileModeToDirectoryMode(fileMode) ==
  LET d1 == IF HasBit(fileMode, 256) THEN SetBit(fileMode, 64) ELSE fileMode
      d2 == IF HasBit(fileMode, 32) THEN SetBit(d1, 8) ELSE d1
  IN IF HasBit(fileMode, 4) THEN SetBit(d2, 1) ELSE d2

\* ownership.dirMode ?? fileModeToDirectoryMode(ownership.mode)
getEffectiveDirMode(ownership) ==
  IF ownership.dirMode # NoDirMode THEN ownership.dirMode
  ELSE fileModeToDirectoryMode(ownership.mode)

\* chown(path, uid, gid) and chmod(path, mode) follow symlinks; applyOwnership
\* catches their errors.
applyOwnership(f, p, mode) ==
  LET r == realpath(f, p) IN
  IF r.err = "OK" /\ r.path # <<>>
  THEN [fs |-> [f EXCEPT ![r.path].uid = RequestUid, ![r.path].mode = mode],
        chowned |-> {r.path}]
  ELSE [fs |-> f, chowned |-> {}]

\* dirOwnership = {...ownership, mode: getEffectiveDirMode(ownership)};
\* while (current !== basePath && current.startsWith(basePath + "/"))
RECURSIVE applyOwnershipToNewDirs(_, _, _, _, _)
applyOwnershipToNewDirs(f, current, basePath, ownership, chowned) ==
  IF ~PathEquals(current, basePath) /\ StartsWithSlash(current, basePath)
  THEN LET a == applyOwnership(f, current, getEffectiveDirMode(ownership)) IN
       applyOwnershipToNewDirs(a.fs, dirname(current), basePath, ownership,
                               chowned \cup a.chowned)
  ELSE [fs |-> f, chowned |-> chowned]

\* rm(path, {recursive: true}): the entry and everything below it
rmRecursive(f, p) == [q \in {x \in DOMAIN f : ~IsPrefix(p, x)} |-> f[q]]

(***************************************************************************)
(* validatePath (src/src/lib/path.ts, 143-211).                            *)
(***************************************************************************)
NoPath == <<"?">>    \* "no path": segment "?" is in no input and on no disk

\* getRealBase: the cached value, else realpath(basePath), cached on success
getRealBase(cache, f, basePath) ==
  IF basePath \in DOMAIN cache
  THEN [ok |-> TRUE, realBase |-> cache[basePath], cache |-> cache]
  ELSE LET r == realpath(f, basePath) IN
       IF r.err = "OK"
       THEN [ok |-> TRUE, realBase |-> r.path, cache |-> (basePath :> r.path) @@ cache]
       ELSE [ok |-> FALSE, realBase |-> NoPath, cache |-> cache]

\* a loop that falls back to the first configured base when none matches
MatchBaseOrFirst(cleaned, i, allowBasePath) ==
  [found |-> TRUE, refused |-> FALSE, base |-> normalize(allowedPaths[1])]

\* the loop over config.allowedPaths: the first base that equals the cleaned
\* path (refused unless allowBasePath) or is a prefix of it followed by "/"
RECURSIVE MatchBase(_, _, _)
MatchBase(cleaned, i, allowBasePath) ==
  IF i > Len(allowedPaths) THEN [found |-> FALSE, refused |-> FALSE, base |-> NoPath]
  ELSE LET cleanBase == normalize(allowedPaths[i]) IN
       IF PathEquals(cleaned, cleanBase)
       THEN IF ~allowBasePath
            THEN [found |-> FALSE, refused |-> TRUE, base |-> NoPath]
            ELSE [found |-> TRUE, refused |-> FALSE, base |-> cleanBase]
       ELSE IF StartsWithSlash(cleaned, cleanBase)
            THEN [found |-> TRUE, refused |-> FALSE, base |-> cleanBase]
            ELSE MatchBase(cleaned, i + 1, allowBasePath)

Failure(status, error) ==
  [ok |-> FALSE, status |-> status, error |-> error, realPath |-> NoPath, basePath |-> NoPath]

\* a gate that skips the re-check after symlink resolution
withinBaseUnchecked(realPath, realBase) == TRUE

\* if (realPath !== realBase && !realPath.startsWith(realBase + "/")) -> 403
withinBase(realPath, realBase) ==
  PathEquals(realPath, realBase) \/ StartsWithSlash(realPath, realBase)

\* step 3 of the gate: mkdir(dirname(cleaned), {recursive: true}) and, with
\* ownership, applyOwnershipToNewDirs(parentPath, realBase, ownership)
createParentDirs(f, cache, cleaned, basePath, ownership) ==
  LET parentPath == dirname(cleaned)
      m == mkdirRecursive(f, parentPath)
  IN IF ~m.ok
     THEN [threw |-> TRUE, fs |-> f, cache |-> cache, created |-> {}, chowned |-> {}]
     ELSE IF ~ownership.given
          THEN [threw |-> FALSE, fs |-> m.fs, cache |-> cache,
                created |-> m.created, chowned |-> {}]
          ELSE LET g == getRealBase(cache, m.fs, basePath) IN
               IF ~g.ok
               THEN [threw |-> FALSE, fs |-> m.fs, cache |-> g.cache,
                     created |-> m.created, chowned |-> {}]
               ELSE LET a == applyOwnershipToNewDirs(m.fs, parentPath, g.realBase, ownership, {}) IN
                    [threw |-> FALSE, fs |-> a.fs, cache |-> g.cache,
                     created |-> m.created, chowned |-> a.chowned]

\* steps 4 and 5: realpath(cleaned), or realpath(parent)/basename on ENOENT,
\* then the containment check against the cached realpath of the base
resolveAndCheck(f, cache, cleaned, basePath) ==
  LET r == realpath(f, cleaned)
      pr == realpath(f, dirname(cleaned))
      g == getRealBase(cache, f, basePath)
      realPath == IF r.err = "OK" THEN r.path ELSE pr.path \o basename(cleaned)
  IN IF r.err = "ENOENT" /\ pr.err # "OK"
     THEN [result |-> Failure(404, "parent path not found"), cache |-> cache]
     ELSE IF r.err \notin {"OK", "ENOENT"}
          THEN [result |-> Failure(400, "path resolution failed"), cache |-> cache]
          ELSE IF ~g.ok
               THEN [result |-> Failure(500, "base path invalid"), cache |-> g.cache]
               ELSE IF ~withinBase(realPath, g.realBase)
                    THEN [result |-> Failure(403, "symlink escape not allowed"),
                          cache |-> g.cache]
                    ELSE [result |-> [ok |-> TRUE, status |-> 200, error |-> "",
                                      realPath |-> realPath, basePath |-> g.realBase],
                          cache |-> g.cache]

\* the whole call: its result and what it did to the disk and to the cache
validatePath(f, cache, path, opts) ==
  LET cleaned == normalize(path)
      mb == MatchBase(cleaned, 1, opts.allowBasePath)
      none == [fs |-> f, cache |-> cache, created |-> {}, chowned |-> {},
               cleaned |-> cleaned, matched |-> mb.base]
  IN IF mb.refused
     THEN [result |-> Failure(403, "cannot operate on base path")] @@ none
     ELSE IF ~mb.found
          THEN [result |-> Failure(403, "path not allowed")] @@ none
          ELSE LET c == IF opts.createParents
                        THEN createParentDirs(f, cache, cleaned, mb.base, opts.ownership)
                        ELSE [threw |-> FALSE, fs |-> f, cache |-> cache,
                              created |-> {}, chowned |-> {}]
               IN IF c.threw
                  THEN [result |-> Failure(500, "mkdir failed")] @@ none
                  ELSE LET rc == resolveAndCheck(c.fs, c.cache, cleaned, mb.base) IN
                       [result |-> rc.result, fs |-> c.fs, cache |-> rc.cache,
                        created |-> c.created, chowned |-> c.chowned,
                        cleaned |-> cleaned, matched |-> mb.base]

(***************************************************************************)
(* State of the upload engine (src/unnamed/part_003).  Two sessions name   *)
(* the same destination file with different checksums, so they have        *)
(* different uploadIds.  SHA-256 is modelled as collision-free: a digest   *)
(* is the byte string it was computed from.                                *)
(***************************************************************************)
Uploads == {"u1", "u2"}          \* computeUploadId(path, filename, checksum)
Slots == {"r1", "r2"}            \* requests that can be in flight together
Data == {"a", "b"}               \* chunk bodies
NoData == "none"                 \* no such file

\* what upload/start was told: the file's chunks; meta.checksum is their digest
Expected == [u \in Uploads |-> IF u = "u1" THEN <<"a", "b">> ELSE <<"b">>]

\* totalChunks = Math.ceil(body.size / chunkSize)
totalChunks(u) == Len(Expected[u])

ChunkIdx == {0, 1}               \* x-chunk-index values a request may carry

NoMeta == -1                     \* no meta.json; else meta.createdAt

\* a directory <uploadTempDir>/<uploadId>: exists, meta.json, <i> and <i>.tmp
AbsentDir ==
  [exists |-> FALSE, meta |-> NoMeta,
   chunks |-> [i \in ChunkIdx |-> NoData], tmps |-> [i \in ChunkIdx |-> NoData]]

EmptyDir == [AbsentDir EXCEPT !.exists = TRUE]

AbsentFile == [exists |-> FALSE, content |-> <<>>, writers |-> {}]

IdleReq ==
  [kind |-> "idle", pc |-> "idle", u |-> "u1", idx |-> 0, data |-> NoData,
   fault |-> "none", hash |-> <<>>, i |-> 0]

IdleJan == [pc |-> "idle", todo |-> {}, cur |-> "u1", hadMeta |-> FALSE, idle |-> 0, at |-> 0,
            removed |-> {}]

NoHistory == [completed |-> FALSE, attempted |-> FALSE, lastActivity |-> 0]

\* relative paths under the base: two files, a directory, two files in it
Entries == {"a", "b", "d", "d/a", "d/b"}

SubDirs == {"d"}

Files == Entries \ SubDirs

\* relative paths of the directories; "" is the base itself
Dirs == {""} \cup SubDirs

\* dirname of a relative path
dirOf(e) == IF e \in {"d/a", "d/b"} THEN "d" ELSE ""

\* rel_path = dirPath OR rel_path LIKE dirPath/% ("" matches every row)
Under(dir) == IF dir = "" THEN Entries ELSE {e \in Entries : e = dir \/ dirOf(e) = dir}

Inodes == 1..MaxInodes

NoFile == 0

NoScanState == -1

\* stat(basePath) fails: the base directory is not there
NoStat == -2

\* no scan running; in a scan: the queue, the directory being read with its
\* entries left and its mtime, and the counts of `result`
IdleScan == [pc |-> "idle", queue |-> <<>>, cur |-> "", todo |-> {}, mtime |-> 0,
             scanned |-> 0, skipped |-> 0, added |-> 0, moved |-> 0]

NoScanHist == [from |-> "a", to |-> "a", id |-> 0, phase |-> "none",
               dirty |-> FALSE, clean |-> FALSE, quiet |-> FALSE]

NoOutcome == [id |-> 0, ino |-> NoFile, action |-> "none"]

\* callers of indexFile that run together (requests, the scanner's workers)
Callers == {"c1", "c2"}

IdleCall == [pc |-> "idle", path |-> "a", ino |-> NoFile, id |-> 0]

InitIndexVars ==
  /\ disk = [e \in Entries |-> NoFile]
  /\ dirMtime = [d \in Dirs |-> 0]
  /\ nextIno = 1
  /\ moves = 0
  /\ fileIndex = {}
  /\ scanState = [d \in Dirs |-> NoScanState]
  /\ nextId = 1
  /\ scan = IdleScan
  /\ lastOutcome = NoOutcome
  /\ firstId = [i \in Inodes |-> 0]
  /\ scanHist = NoScanHist
  /\ calls = [c \in Callers |-> IdleCall]

(***************************************************************************)
(* State of POST /transfer (src/src/handlers/files.ts).  Two configured    *)
(* bases; the sources are files at the top of the first base, the          *)
(* destination is <base>/<parent>/<name> in either base.                   *)
(***************************************************************************)
Bases == {"b1", "b2"}
SourceBase == "b1"
SrcNames == {"s1", "s2"}
TSlots == {"t1", "t2"}

NoContent == "none"

\* what the source files hold, and what a file already at the destination holds
SrcContent == [n \in SrcNames |-> IF n = "s1" THEN "x" ELSE "y"]
OldContent == "old"

\* for (let i = 1; i <= 99; i++)
MaxSuffix == 99

\* i.toString().padStart(2, "0"), as its digits
Pad2(i) == IF i < 10 THEN <<0, i>> ELSE <<i \div 10, i % 10>>

\* names in the destination directory, by what follows <base> before <ext>:
\* nothing (the requested name), "-NN", or "-<Date.now()>" (13 digits)
TargetName == <<>>
TimestampName == <<1, 7, 6, 2, 4, 0, 0, 0, 0, 0, 0, 0, 0>>

\* a directory is the function from the names that exist in it to their content;
\* here one in which the names of `taken` exist
Listing(taken) == [n \in taken |-> OldContent]

EmptyListing == Listing({})

\* what access(name) / a read finds in the directory
At(listing, n) == IF n \in DOMAIN listing THEN listing[n] ELSE NoContent

\* the directory after rename or cp has put content c at name n
Put(listing, n, c) ==
  [m \in DOMAIN listing \cup {n} |-> IF m = n THEN c ELSE listing[m]]

NoOwnership == [uid |-> FALSE, gid |-> FALSE, mode |-> FALSE]
FullOwnership == [uid |-> TRUE, gid |-> TRUE, mode |-> TRUE]

IdleTransfer ==
  [pc |-> "idle", mode |-> "move", src |-> "s1", toBase |-> "b1", unique |-> FALSE,
   own |-> NoOwnership, target |-> TargetName, status |-> 0, error |-> ""]

InitTransferVars ==
  /\ tSub = [b \in Bases |-> TRUE]
  /\ tSrc = SrcContent
  /\ tDst = [b \in Bases |-> EmptyListing]
  /\ tReq = [t \in TSlots |-> IdleTransfer]
  /\ tIssued = 0

\* the scanBasePath calls that can overlap (POST /rescan twice, or one next to
\* another caller of scanAll), and the workers of a call in starting order
Scans == {"s1", "s2"}
WorkerOrder == <<"w1", "w2">>
Workers == {WorkerOrder[k] : k \in 1..Len(WorkerOrder)}

EndedWorker == [pc |-> "ended", dir |-> "", todo |-> {}, mtime |-> 0]

\* a scanBasePath call: scanStart, queue, its workers; history: the directories
\* ever queued, those processDir has returned from, and whether one of its
\* indexFile / touchIndexedAtUnderDir calls came after its stale sweep
IdleScanCall ==
  [pc |-> "idle", start |-> 0, queue |-> <<>>,
   workers |-> [w \in Workers |-> EndedWorker],
   queued |-> {}, finished |-> {}, late |-> FALSE]

\* the ChunkedUpload of a file of ClientChunks chunks, as its constructor leaves
\* it, and no sendAll running; history: calls counts fn's invocations per
\* index in the current sendAll, before holds _completedChunks as sendAll found
\* it, failed whether an invocation of fn threw
ClientChunks == 0..(TotalChunks - 1)

NewClient ==
  [completed |-> {}, uploaded |-> 0, status |-> "pending",
   phase |-> "idle", skip |-> {}, concurrency |-> 1, retries |-> 0,
   queue |-> <<>>, inFlight |-> {}, attempt |-> [i \in ClientChunks |-> 0],
   calls |-> [i \in ClientChunks |-> 0], before |-> {}, failed |-> FALSE]

\* no scan of the worker model has begun, and no ChunkedUpload is in use
InitPoolVars == scans = [s \in Scans |-> IdleScanCall] /\ table = {}

InitClientVars == client = NewClient

InitUploadVars ==
  /\ now = 0
  /\ staging = [u \in Uploads |-> AbsentDir]
  /\ dest = AbsentFile
  /\ sem = [u \in Uploads |-> FALSE]
  /\ req = [r \in Slots |-> IdleReq]
  /\ issued = 0
  /\ jan = IdleJan
  /\ hist = [u \in Uploads |-> NoHistory]

(***************************************************************************)
(* The path-gate state machine: a disk arrangement, then one validatePath  *)
(* call with any input path and any options.                               *)
(***************************************************************************)
EmptyFs == [p \in {} |-> DirNode]

Skeleton ==
  (<<"base">> :> DirNode) @@ (<<"out">> :> DirNode) @@ (<<"lnk">> :> LinkNode(<<"base">>))

LinkChoices ==
  {EmptyFs}
  \cup {(<<"base", "lnk">> :> LinkNode(t)) :
          t \in {<<"out">>, <<"base", "d">>, <<"out", "d">>, <<"base", "lnk">>}}

DChoices == {EmptyFs, (<<"base", "d">> :> DirNode), (<<"base", "d">> :> FileNode)}

OutChoices == {EmptyFs, (<<"out", "d">> :> DirNode)}

Arrangements ==
  {Skeleton @@ l @@ d @@ o : l \in LinkChoices, d \in DChoices, o \in OutChoices}

Inputs == SeqsUpTo(Segments, MaxDepth)

\* ownership of a request: none, 0o600, 0o644, or 0o644 with dirMode 0o750
Ownerships ==
  {NullOwnership,
   [given |-> TRUE, mode |-> 384, dirMode |-> NoDirMode],
   [given |-> TRUE, mode |-> 420, dirMode |-> NoDirMode],
   [given |-> TRUE, mode |-> 420, dirMode |-> 488]}

Options == [allowBasePath : BOOLEAN, createParents : BOOLEAN, ownership : Ownerships]

NoRequest ==
  [path |-> NoPath, opts |-> [allowBasePath |-> FALSE, createParents |-> FALSE,
                              ownership |-> NullOwnership],
   cleaned |-> NoPath, matched |-> NoPath, result |-> Failure(0, "no request"),
   created |-> {}, chowned |-> {}]

InitPath ==
  /\ fs \in Arrangements
  /\ realBaseCache = [b \in {} |-> NoPath]
  /\ lastReq = NoRequest
  /\ InitUploadVars
  /\ InitPoolVars
  /\ InitClientVars
  /\ InitIndexVars
  /\ InitTransferVars

ValidatePathCall ==
  /\ lastReq = NoRequest
  /\ \E path \in Inputs, opts \in Options :
       LET v == validatePath(fs, realBaseCache, path, opts) IN
       /\ fs' = v.fs
       /\ realBaseCache' = v.cache
       /\ lastReq' = [path |-> path, opts |-> opts, cleaned |-> v.cleaned,
                      matched |-> v.matched, result |-> v.result,
                      created |-> v.created, chowned |-> v.chowned]
  /\ UNCHANGED <<uploadVars, indexVars, transferVars, poolVars, clientVars>>

NextPath == ValidatePathCall

SpecPath == InitPath /\ [][NextPath]_vars

\* POST /mkdir: validatePath(body.path); mkdir(realPath, {recursive: true});
\* applyOwnership(realPath, ownership) - chown or chmod may fail (EPERM when the
\* service is not root, EINVAL), and then rm(realPath, {recursive: true}) and
\* 500; else 201.  (The index update that follows does not touch the disk.)
MkdirRequest ==
  /\ lastReq = NoRequest
  /\ \E path \in Inputs, own \in Ownerships, chownFails \in BOOLEAN :
     \E v \in {validatePath(fs, realBaseCache, path,
                             [allowBasePath |-> FALSE, createParents |-> FALSE,
                              ownership |-> NullOwnership])} :
     \E m \in {IF v.result.ok THEN mkdirRecursive(v.fs, v.result.realPath)
                ELSE [ok |-> FALSE, fs |-> v.fs, created |-> {}]} :
       LET opts == [allowBasePath |-> FALSE, createParents |-> FALSE, ownership |-> own]
           a == applyOwnership(m.fs, v.result.realPath, own.mode)
           rq == [path |-> path, opts |-> opts, cleaned |-> v.cleaned,
                   matched |-> v.matched, result |-> v.result,
                   created |-> {}, chowned |-> {}]
       IN /\ realBaseCache' = v.cache
          /\ IF ~v.result.ok
             THEN fs' = v.fs /\ lastReq' = rq
             ELSE IF ~m.ok
                  THEN /\ fs' = v.fs
                       /\ lastReq' = [rq EXCEPT !.result = Failure(500, "mkdir failed")]
                  ELSE IF own.given /\ chownFails
                       THEN /\ fs' = rmRecursive(m.fs, v.result.realPath)
                            /\ lastReq' = [rq EXCEPT !.result = Failure(500, "ownership failed"),
                                                      !.created = m.created]
                       ELSE /\ fs' = IF own.given THEN a.fs ELSE m.fs
                            /\ lastReq' = [rq EXCEPT !.result.status = 201,
                                                      !.created = m.created,
                                                      !.chowned = IF own.given THEN a.chowned
                                                                  ELSE {}]
  /\ UNCHANGED <<uploadVars, indexVars, transferVars, poolVars, clientVars>>

NextMkdir == MkdirRequest

SpecMkdir == InitPath /\ [][NextMkdir]_vars

(***************************************************************************)
(* POST /transfer over the path gate (src/src/handlers/files.ts 525-690):  *)
(* one request with any two paths, taken with ensureUniqueName = false     *)
(* (getUniquePath is the subject of the transfer machine further down).    *)
(***************************************************************************)
TransferInputs == SeqsUpTo(Segments, MaxDepth - 1)

TransferOwnerships == {NullOwnership, [given |-> TRUE, mode |-> 420, dirMode |-> NoDirMode]}

NoTransferRequest ==
  [mode |-> "none", from |-> NoPath, to |-> NoPath, own |-> NullOwnership,
   status |-> 0, error |-> "no request"]

GateOptions == [allowBasePath |-> FALSE, createParents |-> FALSE, ownership |-> NullOwnership]

\* validateSameBase(from, to): validatePath(from), validatePath(to), then the
\* comparison of the two basePaths
\* the one element of a set of one
The(S) == CHOOSE x \in S : TRUE

validateSameBasePaths(f, cache, from, to) ==
  The(UNION {
    {IF ~fr.result.ok THEN [result |-> fr.result, realTo |-> NoPath, cache |-> fr.cache]
     ELSE IF ~tr.result.ok THEN [result |-> tr.result, realTo |-> NoPath, cache |-> tr.cache]
     ELSE IF fr.result.basePath # tr.result.basePath
          THEN [result |-> Failure(400, "cross-basepath not allowed"),
                realTo |-> NoPath, cache |-> tr.cache]
          ELSE [result |-> fr.result, realTo |-> tr.result.realPath, cache |-> tr.cache]
       : tr \in {validatePath(f, fr.cache, to, GateOptions)}}
    : fr \in {validatePath(f, cache, from, GateOptions)}})

Subtree(f, p) == {x \in DOMAIN f : IsPrefix(p, x)}

Rekey(x, src, dst) == dst \o SubSeq(x, Len(src) + 1, Len(x))

\* the tree at src placed at dst, over what is there
Placed(f, keep, src, dst) ==
  [x \in keep \cup {Rekey(y, src, dst) : y \in Subtree(f, src)} |->
     IF IsPrefix(dst, x) /\ Rekey(x, dst, src) \in Subtree(f, src)
     THEN f[Rekey(x, dst, src)] ELSE f[x]]

\* rename(src, dst): EINVAL into its own subtree, ENOTEMPTY / EISDIR / ENOTDIR
\* on a mismatching or non-empty destination, else dst is replaced
renameTree(f, src, dst) ==
  IF src = dst THEN [ok |-> TRUE, fs |-> f]
  ELSE IF IsPrefix(src, dst) THEN [ok |-> FALSE, fs |-> f]
  ELSE IF Exists(f, dst) /\ (KindOf(f, dst) = "dir") # (KindOf(f, src) = "dir")
       THEN [ok |-> FALSE, fs |-> f]
  ELSE IF Exists(f, dst) /\ Subtree(f, dst) # {dst} THEN [ok |-> FALSE, fs |-> f]
  ELSE [ok |-> TRUE,
        fs |-> Placed(f, (DOMAIN f \ Subtree(f, src)) \ Subtree(f, dst), src, dst)]

\* cp(src, dst, {recursive: true}): refuses a copy onto itself or into its own
\* subtree and a file/directory mismatch, else copies over what is there
cpTree(f, src, dst) ==
  IF IsPrefix(src, dst) THEN [ok |-> FALSE, fs |-> f]
  ELSE IF Exists(f, dst) /\ (KindOf(f, dst) = "dir") # (KindOf(f, src) = "dir")
       THEN [ok |-> FALSE, fs |-> f]
  ELSE [ok |-> TRUE, fs |-> Placed(f, DOMAIN f, src, dst)]

\* applyOwnershipRecursive: directories get the directory mode, files the
\* file mode (stat follows links)
RECURSIVE applyOwnershipAll(_, _, _)
applyOwnershipAll(f, todo, own) ==
  IF todo = {} THEN f
  ELSE LET x == CHOOSE y \in todo : TRUE
           r == realpath(f, x)
           mode == IF r.err = "OK" /\ KindOf(f, r.path) = "dir"
                   THEN getEffectiveDirMode(own) ELSE own.mode
       IN applyOwnershipAll(applyOwnership(f, x, mode).fs, todo \ {x}, own)

applyOwnershipRecursive(f, p, own) == applyOwnershipAll(f, Subtree(f, p), own)

Answer(f, cache, status, error) == [fs |-> f, cache |-> cache, status |-> status, error |-> error]

\* after the gate: stat(source), mkdir(join(targetPath, "..")), rename or cp,
\* applyOwnershipRecursive (on its error a copy removes the target), 200
Perform(f, cache, mode, src, dst, own, chownFails) ==
  IF ~Exists(f, src) THEN Answer(f, cache, 404, "source not found")
  ELSE The(UNION {
    {IF ~m.ok THEN Answer(f, cache, 500, "mkdir failed")
     ELSE IF ~op.ok THEN Answer(m.fs, cache, 500, "operation failed")
     ELSE IF own.given /\ chownFails
          THEN Answer(IF mode = "copy" THEN rmRecursive(op.fs, dst) ELSE op.fs,
                      cache, 500, "ownership failed")
          ELSE Answer(IF own.given THEN applyOwnershipRecursive(op.fs, dst, own) ELSE op.fs,
                      cache, 200, "")
       : op \in {IF ~m.ok THEN m
                 ELSE IF mode = "move" THEN renameTree(m.fs, src, dst)
                 ELSE cpTree(m.fs, src, dst)}}
    : m \in {mkdirRecursive(f, dirname(dst))}})

\* the copy branch for two bases: ownership required; validatePath(from);
\* validatePath(to, {createParents: true, ownership})
CrossBaseCopy(f, cache, from, to, own, chownFails) ==
  IF ~own.given
  THEN Answer(f, cache, 400, "cross-base copy requires ownership")
  ELSE The({IF ~fr.result.ok THEN Answer(f, fr.cache, fr.result.status, fr.result.error)
            ELSE The({IF ~tr.result.ok
                      THEN Answer(tr.fs, tr.cache, tr.result.status, tr.result.error)
                      ELSE Perform(tr.fs, tr.cache, "copy", fr.result.realPath,
                                   tr.result.realPath, own, chownFails)
                        : tr \in {validatePath(f, fr.cache, to,
                                     [GateOptions EXCEPT !.createParents = TRUE,
                                                         !.ownership = own])}})
              : fr \in {validatePath(f, cache, from, GateOptions)}})

TransferRequest ==
  /\ lastReq = NoTransferRequest
  /\ \E mode \in {"move", "copy"}, from \in TransferInputs, to \in TransferInputs,
        own \in TransferOwnerships, chownFails \in BOOLEAN :
     \E sb \in {validateSameBasePaths(fs, realBaseCache, from, to)} :
     \E out \in {IF sb.result.ok
                  THEN Perform(fs, sb.cache, mode, sb.result.realPath, sb.realTo,
                               own, chownFails)
                  ELSE IF mode = "move"
                       THEN Answer(fs, sb.cache, sb.result.status, sb.result.error)
                       ELSE CrossBaseCopy(fs, sb.cache, from, to, own, chownFails)} :
          /\ fs' = out.fs
          /\ realBaseCache' = out.cache
          /\ lastReq' = [mode |-> mode, from |-> from, to |-> to, own |-> own,
                         status |-> out.status, error |-> out.error]
  /\ UNCHANGED <<uploadVars, indexVars, transferVars, poolVars, clientVars>>

NextGate == TransferRequest

InitGate ==
  /\ fs \in Arrangements
  /\ realBaseCache = [b \in {} |-> NoPath]
  /\ lastReq = NoTransferRequest
  /\ InitUploadVars
  /\ InitPoolVars
  /\ InitClientVars
  /\ InitIndexVars
  /\ InitTransferVars

SpecGate == InitGate /\ [][NextGate]_vars

\* the file modes 0 .. 0o777
FileModes == 0..511

\* const dirMode = getEffectiveDirMode(ownership);
\* const dirOwnership = {...ownership, mode: dirMode}, for an ownership
\* without dirMode: the derived mode is kept next to the file mode
DeriveDirMode ==
  /\ lastReq.opts.ownership.given /\ lastReq.opts.ownership.dirMode = NoDirMode
  /\ lastReq' = [lastReq EXCEPT !.opts.ownership.dirMode =
                                   getEffectiveDirMode(lastReq.opts.ownership)]
  /\ UNCHANGED <<fs, realBaseCache>>
  /\ UNCHANGED <<uploadVars, indexVars, transferVars, poolVars, clientVars>>

NextMode == DeriveDirMode

\* an ownership with any file mode and no dirMode
InitMode ==
  /\ fs = Skeleton
  /\ realBaseCache = [b \in {} |-> NoPath]
  /\ lastReq \in {[NoRequest EXCEPT !.opts.ownership =
                                      [given |-> TRUE, mode |-> m, dirMode |-> NoDirMode]]
                     : m \in FileModes}
  /\ InitUploadVars
  /\ InitPoolVars
  /\ InitClientVars
  /\ InitIndexVars
  /\ InitTransferVars

SpecMode == InitMode /\ [][NextMode]_vars

(***************************************************************************)
(* Claims about the path gate.                                             *)
(***************************************************************************)
\* the symlink-resolved locations of the configured bases, on the disk as it is
RealBases ==
  {realpath(fs, normalize(allowedPaths[i])).path :
     i \in {j \in 1..Len(allowedPaths) : realpath(fs, normalize(allowedPaths[j])).err = "OK"}}

InsideSomeBase(p) == \E b \in RealBases : IsPrefix(b, p)

C2_TouchedInsideBase ==
  \A p \in lastReq.created \cup lastReq.chowned : InsideSomeBase(p)

\* C20: when a call has createParents and an ownership O, every directory it
\* created below a base has uid/gid O and mode O.dirMode if given, else
\* fileModeToDirectoryMode(O.mode).
C20_CreatedDirsGetOwnership ==
  lastReq.opts.createParents /\ lastReq.opts.ownership.given =>
    \A p \in lastReq.created :
      InsideSomeBase(p) =>
        /\ fs[p].uid = RequestUid
        /\ fs[p].mode = getEffectiveDirMode(lastReq.opts.ownership)

\* the path is no configured base and lies under none
OutsideEveryBase(p) ==
  \A i \in 1..Len(allowedPaths) : ~IsPrefix(normalize(allowedPaths[i]), p)

\* C26: a validatePath call whose normalized path is neither a configured
\* base nor under one answers 403 "path not allowed" and changes nothing on
\* the filesystem (no directory created, none chowned), whatever its options.
C26_OutsidePathRejectedUntouched ==
  [][(lastReq = NoRequest /\ lastReq' # NoRequest
        /\ OutsideEveryBase(normalize(lastReq'.path)))
       => /\ lastReq'.result = Failure(403, "path not allowed")
          /\ fs' = fs
          /\ lastReq'.created = {} /\ lastReq'.chowned = {}]_vars

\* /base/../d with createParents and ownership: refused, /d not created
C26_Witness ==
  /\ lastReq.path = <<"base", "..", "d">>
  /\ lastReq.opts.createParents /\ lastReq.opts.ownership.given
  /\ lastReq.result = Failure(403, "path not allowed")
  /\ ~Exists(fs, <<"d">>)

\* the path leaves the bases: it is under no configured base, or it (or, when
\* it does not exist, its parent) resolves through a symlink to a place under
\* no base
Escapes(f, path) ==
  LET c == normalize(path)
      r == realpath(f, c)
      pr == realpath(f, dirname(c))
  IN \/ OutsideEveryBase(c)
     \/ r.err = "OK" /\ ~InsideSomeBase(r.path)
     \/ r.err = "ENOENT" /\ pr.err = "OK" /\ ~InsideSomeBase(pr.path \o basename(c))

\* C31: a transfer request whose source or destination leaves the bases is
\* answered 403, for copy and for move, with or without ownership fields.
C31_EscapingTransferIs403 ==
  [][(lastReq = NoTransferRequest /\ lastReq' # NoTransferRequest
        /\ (Escapes(fs, lastReq'.from) \/ Escapes(fs, lastReq'.to)))
       => lastReq'.status = 403]_vars

\* C38: when POST /mkdir fails while applying ownership, whatever was on the
\* disk before the request is still there: the rollback removes only
\* directories this request created.
C38_RollbackKeepsExistingDirs ==
  [][(MkdirRequest /\ lastReq'.result.error = "ownership failed")
       => \A p \in DOMAIN fs : p \in DOMAIN fs']_vars

\* the read bit of the principal whose execute bit is `bit`
ReadBitOf(bit) == 4 * bit

\* C25: for every file mode m in 0..0o777 the derived directory mode has each
\* of the nine permission bits set exactly when m has it or, for an execute
\* bit, when m has the read bit of the same principal; no higher bit is set.
C25_DirModeAddsExecWhereRead ==
  LET m == lastReq.opts.ownership.mode
      d == lastReq.opts.ownership.dirMode
  IN (lastReq.opts.ownership.given /\ d # NoDirMode) =>
       /\ d \in FileModes
       /\ \A bit \in {1, 2, 4, 8, 16, 32, 64, 128, 256} :
            HasBit(d, bit) <=>
              \/ HasBit(m, bit)
              \/ bit \in {1, 8, 64} /\ HasBit(m, ReadBitOf(bit))

\* 0o604 has become 0o705: x added for owner and other, not for the group
C25_Witness ==
  /\ lastReq.opts.ownership.given
  /\ lastReq.opts.ownership.mode = 388
  /\ lastReq.opts.ownership.dirMode = 453

(***************************************************************************)
(* The upload engine (src/unnamed/part_003).  Every await of a handler is  *)
(* a point where other requests and the janitor may run.                   *)
(***************************************************************************)
\* loadMeta: null when meta.json cannot be read
loadMeta(u) == IF staging[u].exists THEN staging[u].meta ELSE NoMeta

\* parseInt(f, 10) of a directory entry: "<i>" and "<i>.tmp" both give i
parseInt10(name) == name.idx

\* readdir(chunksDir(id)) without meta.json
chunkDirEntries(d) ==
  IF ~d.exists THEN {}
  ELSE {[idx |-> i, suffix |-> ""] : i \in {j \in ChunkIdx : d.chunks[j] # NoData}}
       \cup {[idx |-> i, suffix |-> ".tmp"] : i \in {j \in ChunkIdx : d.tmps[j] # NoData}}

\* .map(parseInt).filter(!isNaN).sort(): one element per directory entry
RECURSIVE SortedInts(_, _)
SortedInts(names, from) ==
  IF from > 1 THEN <<>>
  ELSE [k \in 1..Cardinality({n \in names : parseInt10(n) = from}) |-> from]
       \o SortedInts(names, from + 1)

\* the catch branch of getUploadedChunks taken on every call
getUploadedChunksEmpty(u) == <<>>

getUploadedChunks(u) == SortedInts(chunkDirEntries(staging[u]), 0)

Elems(q) == {q[k] : k \in 1..Len(q)}

\* the chunk files <i> that exist: committed by rename
Committed(u) ==
  IF staging[u].exists THEN {i \in ChunkIdx : staging[u].chunks[i] # NoData} ELSE {}

\* semaphore.acquire() returns when the semaphore of this uploadId is free
canAcquireAlways(u) == TRUE

canAcquire(u) == ~sem[u]

\* rm(pathResult.realPath): the name is gone; open writers keep an unlinked file
UnlinkedNot == dest

Unlinked == AbsentFile

\* file.writer(): the destination is created or truncated
Opened(r) == [exists |-> TRUE, content |-> <<>>, writers |-> dest.writers \cup {r}]

\* writer.write(data) of chunk i: lands in the file only if r's file is still
\* the one under the destination name
Written(r, i, data) ==
  IF r \notin dest.writers THEN dest
  ELSE [dest EXCEPT !.content =
          IF Len(dest.content) > i THEN [dest.content EXCEPT ![i + 1] = data]
          ELSE Append(dest.content, data)]

Closed(r) == [dest EXCEPT !.writers = dest.writers \ {r}]

\* the response (resp: its status or kind) is sent and the handler's locals are gone
Reply(r, resp) == [req EXCEPT ![r] = IdleReq]

ChunkAt(r, pc) == req[r].kind = "chunk" /\ req[r].pc = pc
StartAt(r, pc) == req[r].kind = "start" /\ req[r].pc = pc

SlotFree(r) == req[r].pc = "idle"

\* a new request takes the first free slot
Takes(r) == SlotFree(r) /\ (r = "r2" => ~SlotFree("r1"))

\* POST /upload/start arrives (validatePath of the destination has passed)
NewStart(r, u) ==
  /\ Takes(r)
  /\ req' = [req EXCEPT ![r] = [IdleReq EXCEPT !.kind = "start", !.pc = "sLoad", !.u = u]]
  /\ hist' = [hist EXCEPT ![u].completed = FALSE]
  /\ UNCHANGED <<pathVars, indexVars, transferVars, poolVars, clientVars>>
  /\ UNCHANGED <<now, staging, dest, sem, issued, jan>>

\* const existingMeta = await loadMeta(uploadId)
StartLoad(r) ==
  /\ StartAt(r, "sLoad")
  /\ req' = [req EXCEPT ![r].pc = IF loadMeta(req[r].u) # NoMeta THEN "sRefresh" ELSE "sSave"]
  /\ UNCHANGED <<pathVars, indexVars, transferVars, poolVars, clientVars>>
  /\ UNCHANGED <<now, staging, dest, sem, issued, jan, hist>>

\* saveMeta: mkdir(chunksDir, {recursive: true}); writeFile(meta.json)
saveMeta(u, createdAt) ==
  [staging EXCEPT ![u] = [(IF staging[u].exists THEN staging[u] ELSE EmptyDir)
                            EXCEPT !.meta = createdAt]]

\* refreshExpiry(uploadId, existingMeta): createdAt = Date.now(), saveMeta
StartRefresh(r) ==
  /\ StartAt(r, "sRefresh")
  /\ staging' = saveMeta(req[r].u, now)
  /\ req' = [req EXCEPT ![r].pc = "sList"]
  /\ hist' = [hist EXCEPT ![req[r].u].lastActivity = now, ![req[r].u].completed = FALSE]
  /\ UNCHANGED <<pathVars, indexVars, transferVars, poolVars, clientVars>>
  /\ UNCHANGED <<now, dest, sem, issued, jan>>

\* resume: uploadedChunks = await getUploadedChunks(uploadId); respond
StartList(r) ==
  /\ StartAt(r, "sList")
  /\ req' = Reply(r, "started")
  /\ UNCHANGED <<pathVars, indexVars, transferVars, poolVars, clientVars>>
  /\ UNCHANGED <<now, staging, dest, sem, issued, jan, hist>>

\* new upload: saveMeta(meta) with createdAt = Date.now(); uploadedChunks: []
StartSave(r) ==
  /\ StartAt(r, "sSave")
  /\ staging' = saveMeta(req[r].u, now)
  /\ req' = Reply(r, "started")
  /\ hist' = [hist EXCEPT ![req[r].u].lastActivity = now, ![req[r].u].completed = FALSE]
  /\ UNCHANGED <<pathVars, indexVars, transferVars, poolVars, clientVars>>
  /\ UNCHANGED <<now, dest, sem, issued, jan>>

\* POST /upload/chunk arrives with its headers and body
NewChunk(r, u, idx, data, fault) ==
  /\ Takes(r) /\ issued < MaxRequests
  /\ req' = [req EXCEPT ![r] = [IdleReq EXCEPT !.kind = "chunk", !.pc = "load", !.u = u,
                                               !.idx = idx, !.data = data, !.fault = fault]]
  /\ issued' = issued + 1
  /\ UNCHANGED <<pathVars, indexVars, transferVars, poolVars, clientVars>>
  /\ UNCHANGED <<now, staging, dest, sem, jan, hist>>

\* loadMeta -> 404; chunkIndex >= meta.totalChunks -> 400
ChunkLoadMeta(r) ==
  /\ ChunkAt(r, "load")
  /\ req' = IF loadMeta(req[r].u) = NoMeta THEN Reply(r, "e404")
            ELSE IF req[r].idx >= totalChunks(req[r].u) THEN Reply(r, "e400")
            ELSE [req EXCEPT ![r].pc = "mkdir"]
  /\ UNCHANGED <<pathVars, indexVars, transferVars, poolVars, clientVars>>
  /\ UNCHANGED <<now, staging, dest, sem, issued, jan, hist>>

\* await mkdir(chunksDir(uploadId), {recursive: true})
ChunkMkdir(r) ==
  /\ ChunkAt(r, "mkdir")
  /\ staging' = [staging EXCEPT ![req[r].u] =
                   IF staging[req[r].u].exists THEN staging[req[r].u] ELSE EmptyDir]
  /\ req' = [req EXCEPT ![r].pc = "stream"]
  /\ UNCHANGED <<pathVars, indexVars, transferVars, poolVars, clientVars>>
  /\ UNCHANGED <<now, dest, sem, issued, jan, hist>>

\* the body is streamed to <index>.tmp; more than maxChunkBytes -> rm, 413;
\* a write into a directory that is gone throws -> 500
ChunkStream(r) ==
  /\ ChunkAt(r, "stream")
  /\ LET u == req[r].u  i == req[r].idx IN
     IF ~staging[u].exists
     THEN /\ req' = Reply(r, "e500")
          /\ UNCHANGED staging
     ELSE IF req[r].fault = "toobig"
          THEN /\ staging' = [staging EXCEPT ![u].tmps[i] = NoData]
               /\ req' = Reply(r, "e413")
          ELSE /\ staging' = [staging EXCEPT ![u].tmps[i] = req[r].data]
               /\ req' = [req EXCEPT ![r].pc = "commit"]
  /\ UNCHANGED <<pathVars, indexVars, transferVars, poolVars, clientVars>>
  /\ UNCHANGED <<now, dest, sem, issued, jan, hist>>

\* x-chunk-checksum mismatch -> rm tmp, 400; else rename(<i>.tmp, <i>)
ChunkCommit(r) ==
  /\ ChunkAt(r, "commit")
  /\ LET u == req[r].u  i == req[r].idx IN
     IF req[r].fault = "badsum"
     THEN /\ staging' = [staging EXCEPT ![u].tmps[i] = NoData]
          /\ req' = Reply(r, "e400")
          /\ UNCHANGED hist
     ELSE IF staging[u].exists /\ staging[u].tmps[i] # NoData
          THEN /\ staging' = [staging EXCEPT ![u].chunks[i] = staging[u].tmps[i],
                                             ![u].tmps[i] = NoData]
               /\ req' = [req EXCEPT ![r].pc = "list"]
               /\ hist' = [hist EXCEPT ![u].lastActivity = now]
          ELSE /\ req' = Reply(r, "e500")
               /\ UNCHANGED <<staging, hist>>
  /\ UNCHANGED <<pathVars, indexVars, transferVars, poolVars, clientVars>>
  /\ UNCHANGED <<now, dest, sem, issued, jan>>

\* uploadedChunks = await getUploadedChunks(uploadId);
\* length === meta.totalChunks -> assembleFile, else the progress response
ChunkList(r) ==
  /\ ChunkAt(r, "list")
  /\ LET l == getUploadedChunks(req[r].u) IN
     req' = IF Len(l) = totalChunks(req[r].u)
            THEN [req EXCEPT ![r].pc = "acquire"]
            ELSE Reply(r, "progress")
  /\ UNCHANGED <<pathVars, indexVars, transferVars, poolVars, clientVars>>
  /\ UNCHANGED <<now, staging, dest, sem, issued, jan, hist>>

\* assembleFile: await semaphore.acquire()
AsmAcquire(r) ==
  /\ ChunkAt(r, "acquire")
  /\ canAcquire(req[r].u)
  /\ sem' = [sem EXCEPT ![req[r].u] = TRUE]
  /\ req' = [req EXCEPT ![r].pc = "asmCheck"]
  /\ UNCHANGED <<pathVars, indexVars, transferVars, poolVars, clientVars>>
  /\ UNCHANGED <<now, staging, dest, issued, jan, hist>>

\* inside the mutex: re-list; empty -> return null; wrong count or missing
\* index -> error; else validatePath, mkdir, file.writer()
AsmCheck(r) ==
  /\ ChunkAt(r, "asmCheck")
  /\ LET u == req[r].u
         chunks == getUploadedChunks(u)
         missing == {i \in 0..(totalChunks(u) - 1) : i \notin Elems(chunks)}
     IN /\ hist' = [hist EXCEPT ![u].attempted =
                      hist[u].attempted \/ Committed(u) = 0..(totalChunks(u) - 1)]
        /\ IF chunks = <<>>
           THEN /\ req' = [req EXCEPT ![r].pc = "stat"]
                /\ sem' = [sem EXCEPT ![u] = FALSE]
                /\ UNCHANGED dest
           ELSE IF Len(chunks) # totalChunks(u) \/ missing # {}
                THEN /\ req' = Reply(r, "e500")
                     /\ sem' = [sem EXCEPT ![u] = FALSE]
                     /\ UNCHANGED dest
                ELSE /\ req' = [req EXCEPT ![r].pc = "asmCopy", ![r].i = 0, ![r].hash = <<>>]
                     /\ dest' = Opened(r)
                     /\ UNCHANGED sem
  /\ UNCHANGED <<pathVars, indexVars, transferVars, poolVars, clientVars>>
  /\ UNCHANGED <<now, staging, issued, jan>>

\* one turn of the loop: chunk i missing -> rm destination, error;
\* else hasher.update(data), writer.write(data)
AsmCopy(r) ==
  /\ ChunkAt(r, "asmCopy")
  /\ LET u == req[r].u  i == req[r].i IN
     IF i \notin Committed(u)
     THEN /\ dest' = Unlinked
          /\ sem' = [sem EXCEPT ![u] = FALSE]
          /\ req' = Reply(r, "e500")
     ELSE /\ dest' = Written(r, i, staging[u].chunks[i])
          /\ req' = [req EXCEPT ![r].hash = Append(req[r].hash, staging[u].chunks[i]),
                                ![r].i = i + 1,
                                ![r].pc = IF i + 1 = totalChunks(u) THEN "asmFinish"
                                          ELSE "asmCopy"]
          /\ UNCHANGED sem
  /\ UNCHANGED <<pathVars, indexVars, transferVars, poolVars, clientVars>>
  /\ UNCHANGED <<now, staging, issued, jan, hist>>

\* await writer.end(); digest # meta.checksum -> await rm(destination);
\* applyOwnership(realPath, null) does nothing
AsmFinish(r) ==
  /\ ChunkAt(r, "asmFinish")
  /\ LET u == req[r].u IN
     IF req[r].hash # Expected[u]
     THEN /\ dest' = Unlinked
          /\ req' = [req EXCEPT ![r].pc = "mismatch"]
     ELSE /\ dest' = Closed(r)
          /\ req' = [req EXCEPT ![r].pc = "asmCleanup"]
  /\ UNCHANGED <<pathVars, indexVars, transferVars, poolVars, clientVars>>
  /\ UNCHANGED <<now, staging, sem, issued, jan, hist>>

\* return `checksum mismatch: expected ..., got ...`; finally semaphore.release();
\* the handler answers 500 with that error
AsmMismatch(r) ==
  /\ ChunkAt(r, "mismatch")
  /\ sem' = [sem EXCEPT ![req[r].u] = FALSE]
  /\ req' = Reply(r, "e500 checksum mismatch")
  /\ UNCHANGED <<pathVars, indexVars, transferVars, poolVars, clientVars>>
  /\ UNCHANGED <<now, staging, dest, issued, jan, hist>>

\* await cleanupUpload(meta.uploadId); return null; finally semaphore.release()
AsmCleanup(r) ==
  /\ ChunkAt(r, "asmCleanup")
  /\ staging' = [staging EXCEPT ![req[r].u] = AbsentDir]
  /\ sem' = [sem EXCEPT ![req[r].u] = FALSE]
  /\ req' = [req EXCEPT ![r].pc = "stat"]
  /\ hist' = [hist EXCEPT ![req[r].u].attempted = FALSE]
  /\ UNCHANGED <<pathVars, indexVars, transferVars, poolVars, clientVars>>
  /\ UNCHANGED <<now, dest, issued, jan>>

\* const s = await stat(fullPath); respond completed: true (stat throws -> 500)
ChunkStat(r) ==
  /\ ChunkAt(r, "stat")
  /\ IF dest.exists
     THEN /\ req' = Reply(r, "completed")
          /\ hist' = [hist EXCEPT ![req[r].u].completed = TRUE]
     ELSE /\ req' = Reply(r, "e500")
          /\ UNCHANGED hist
  /\ UNCHANGED <<pathVars, indexVars, transferVars, poolVars, clientVars>>
  /\ UNCHANGED <<now, staging, dest, sem, issued, jan>>

\* cleanupOrphanedChunks: const dirs = await readdir(config.uploadTempDir)
JanReaddir ==
  /\ jan.pc = "idle"
  /\ jan' = [IdleJan EXCEPT !.pc = "loop", !.at = now,
                            !.todo = {u \in Uploads : staging[u].exists}]
  /\ UNCHANGED <<pathVars, indexVars, transferVars, poolVars, clientVars>>
  /\ UNCHANGED <<now, staging, dest, sem, req, issued, hist>>

\* meta = await loadMeta(dir); if (!meta || now - meta.createdAt > expiryMs)
\* (jan.at is the Date.now() read once before the loop; jan.idle is the time
\* since the session's last upload/start or committed chunk)
JanLoad ==
  /\ jan.pc = "loop"
  /\ IF jan.todo = {}
     THEN jan' = IdleJan
     ELSE \E u \in jan.todo :
            LET meta == loadMeta(u) IN
            IF meta = NoMeta \/ jan.at - meta > ExpiryTicks
            THEN jan' = [jan EXCEPT !.pc = "rm", !.cur = u, !.hadMeta = meta # NoMeta,
                                    !.idle = now - hist[u].lastActivity]
            ELSE jan' = [jan EXCEPT !.todo = jan.todo \ {u}]
  /\ UNCHANGED <<pathVars, indexVars, transferVars, poolVars, clientVars>>
  /\ UNCHANGED <<now, staging, dest, sem, req, issued, hist>>

\* await rm(chunksDir(dir), {recursive: true})
JanRm ==
  /\ jan.pc = "rm"
  /\ staging' = [staging EXCEPT ![jan.cur] = AbsentDir]
  /\ jan' = [jan EXCEPT !.pc = "loop", !.todo = jan.todo \ {jan.cur},
                        !.removed = jan.removed \cup {jan.cur}]
  /\ hist' = [hist EXCEPT ![jan.cur].attempted = FALSE]
  /\ UNCHANGED <<pathVars, indexVars, transferVars, poolVars, clientVars>>
  /\ UNCHANGED <<now, dest, sem, req, issued>>

Tick ==
  /\ now < MaxTime
  /\ now' = now + 1
  /\ UNCHANGED <<pathVars, indexVars, transferVars, poolVars, clientVars>>
  /\ UNCHANGED <<staging, dest, sem, req, issued, jan, hist>>

Faults == {"none", "badsum", "toobig"}

NextUpload ==
  \/ \E r \in Slots, u \in Uploads : NewStart(r, u)
  \/ \E r \in Slots, u \in Uploads, i \in ChunkIdx, d \in Data, f \in Faults :
       NewChunk(r, u, i, d, f)
  \/ \E r \in Slots :
       \/ StartLoad(r) \/ StartRefresh(r) \/ StartList(r) \/ StartSave(r)
       \/ ChunkLoadMeta(r) \/ ChunkMkdir(r) \/ ChunkStream(r) \/ ChunkCommit(r)
       \/ ChunkList(r) \/ AsmAcquire(r) \/ AsmCheck(r) \/ AsmCopy(r)
       \/ AsmFinish(r) \/ AsmMismatch(r) \/ AsmCleanup(r) \/ ChunkStat(r)

\* one client uploading one file, its requests one after the other, with the
\* janitor's timer and the clock
NextJanitor ==
  \/ NewStart("r1", "u1")
  \/ \E i \in ChunkIdx, d \in Data, f \in Faults : NewChunk("r1", "u1", i, d, f)
  \/ StartLoad("r1") \/ StartRefresh("r1") \/ StartList("r1") \/ StartSave("r1")
  \/ ChunkLoadMeta("r1") \/ ChunkMkdir("r1") \/ ChunkStream("r1")
  \/ ChunkCommit("r1") \/ ChunkList("r1") \/ AsmAcquire("r1") \/ AsmCheck("r1")
  \/ AsmCopy("r1") \/ AsmFinish("r1") \/ AsmMismatch("r1") \/ AsmCleanup("r1")
  \/ ChunkStat("r1")
  \/ JanReaddir \/ JanLoad \/ JanRm \/ Tick

InitUpload ==
  /\ InitUploadVars
  /\ InitPoolVars
  /\ InitClientVars
  /\ InitIndexVars
  /\ InitTransferVars
  /\ fs = Skeleton
  /\ realBaseCache = [b \in {} |-> NoPath]
  /\ lastReq = NoRequest

SpecUpload == InitUpload /\ [][NextUpload]_vars

SpecJanitor == InitUpload /\ [][NextJanitor]_vars

\* the client of "should handle out-of-order chunk uploads": a chunk of a
\* started session that has not been sent yet, any index, with its bytes
SendChunk(u, i) ==
  /\ loadMeta(u) # NoMeta
  /\ i < totalChunks(u) /\ i \notin Committed(u)
  /\ NewChunk("r1", u, i, Expected[u][i + 1], "none")

\* clients that await every answer before the next request (one slot), each
\* chunk index of a session sent once in any order, and the clock
NextSerial ==
  \/ \E u \in Uploads : NewStart("r1", u)
  \/ \E u \in Uploads, i \in ChunkIdx : SendChunk(u, i)
  \/ StartLoad("r1") \/ StartRefresh("r1") \/ StartList("r1") \/ StartSave("r1")
  \/ ChunkLoadMeta("r1") \/ ChunkMkdir("r1") \/ ChunkStream("r1")
  \/ ChunkCommit("r1") \/ ChunkList("r1") \/ AsmAcquire("r1") \/ AsmCheck("r1")
  \/ AsmCopy("r1") \/ AsmFinish("r1") \/ AsmCleanup("r1") \/ ChunkStat("r1")
  \/ Tick

SpecSerial == InitUpload /\ [][NextSerial]_vars

(***************************************************************************)
(* Claims about the upload engine.                                         *)
(***************************************************************************)
InFlight(r) == req[r].pc # "idle"

AllIndices(u) == 0..(totalChunks(u) - 1)

InMutex(r) == req[r].pc \in {"asmCheck", "asmCopy", "asmFinish", "mismatch", "asmCleanup"}

WritingDest(r) == req[r].pc \in {"asmCopy", "asmFinish"}

NoDuplicates(q) == \A j, k \in 1..Len(q) : q[j] = q[k] => j = k

\* C3: a chunk request that answers completed:true for upload U finds the
\* destination file holding U's chunks in index order (SHA-256 = U.checksum).
\* (A request at "stat" answers completed:true in its next step exactly when
\* the destination exists; the file it reports is the one on disk then.)
C3_CompletedFileIsTheUpload ==
  \A r \in Slots :
    ChunkAt(r, "stat") /\ dest.exists => dest.content = Expected[req[r].u]

\* C4: the uploadedChunks list of upload/start and upload/chunk holds index i
\* only if <i> was committed by rename, and holds it once.
\* (A request at "list" or "sList" computes its uploadedChunks from the
\* directory as it is in that state.)
C4_ListedChunksAreCommitted ==
  \A r \in Slots :
    ChunkAt(r, "list") \/ StartAt(r, "sList") =>
      /\ NoDuplicates(getUploadedChunks(req[r].u))
      /\ Elems(getUploadedChunks(req[r].u)) \subseteq Committed(req[r].u)

\* C5: a session never rests with every chunk committed, no chunk request in
\* flight and no assembly attempted since the chunks were complete.
C5_FullSessionIsAssembled ==
  \A u \in Uploads :
    ( /\ loadMeta(u) # NoMeta
      /\ Committed(u) = AllIndices(u)
      /\ \A r \in Slots : ~(InFlight(r) /\ req[r].kind = "chunk" /\ req[r].u = u) )
    => hist[u].attempted

\* C6: at most one assembly writes the destination file at any moment.
C6_OneWriterPerDestination ==
  \A r1, r2 \in Slots : WritingDest(r1) /\ WritingDest(r2) => r1 = r2

\* C7: per uploadId, at most one assembleFile call is between acquire and release.
C7_OneAssemblerPerSession ==
  \A r1, r2 \in Slots :
    InMutex(r1) /\ InMutex(r2) /\ req[r1].u = req[r2].u => r1 = r2

\* a second request of the same session waits for the mutex while the first holds it
C7_Witness ==
  \E r1, r2 \in Slots :
    /\ InMutex(r1) /\ req[r2].pc = "acquire" /\ req[r1].u = req[r2].u
    /\ sem[req[r1].u]

\* C8: after completed:true for U, U's staging directory is absent until an
\* upload/start for U puts it back (only upload/start writes meta.json, so a
\* directory without meta.json was not made by a start).
C8_StagingGoneAfterCompletion ==
  \A u \in Uploads :
    hist[u].completed => ~staging[u].exists \/ staging[u].meta # NoMeta

\* C9: the janitor removes a session (a directory with its meta.json) only when
\* at least uploadExpirySecs have passed since its last upload/start or
\* committed chunk.
C9_JanitorRemovesOnlyIdleSessions ==
  jan.pc = "rm" /\ jan.hadMeta => jan.idle >= ExpiryTicks

\* C28: when a janitor run ends, a directory it found without meta.json or
\* with an expired one, and removed, is not under uploadTempDir, unless an
\* upload/start has made it anew since (it then holds a new meta.json).
C28_JanitorLeavesNoStaleDir ==
  [][(jan.pc = "loop" /\ jan.todo = {} /\ jan'.pc = "idle")
       => \A u \in jan.removed : staging[u].exists => staging[u].meta # NoMeta]_vars

\* C29: when assembleFile's count and index check inside the mutex passes and
\* the destination is opened, every chunk file 0..totalChunks-1 of the session
\* is committed: none is missing and none is there only as <i>.tmp.
C29_CheckPassedMeansAllCommitted ==
  [][\A r \in Slots :
       (ChunkAt(r, "asmCheck") /\ req'[r].kind = "chunk" /\ req'[r].pc = "asmCopy")
         => Committed(req[r].u) = AllIndices(req[r].u)]_vars

\* C35: when the janitor removes a staging directory, the directory holds no
\* meta.json or one whose createdAt is more than uploadExpirySecs ago, also
\* when an upload/start saves or refreshes meta.json while the janitor is at
\* that directory.
C35_JanitorRemovesNoFreshSession ==
  [][JanRm => \/ loadMeta(jan.cur) = NoMeta
              \/ now - loadMeta(jan.cur) > ExpiryTicks]_vars

\* C36: the chunk file <i> that a request commits holds the body of one chunk
\* request for that session and index that passed its size and checksum
\* checks, also when another request of the same index is under way.
C36_CommittedChunkIsOneCheckedBody ==
  [][\A r \in Slots :
       (ChunkCommit(r) /\ req'[r].kind = "chunk" /\ req'[r].pc = "list")
         => \E q \in Slots :
              /\ req[q].kind = "chunk" /\ req[q].fault = "none"
              /\ req[q].u = req[r].u /\ req[q].idx = req[r].idx
              /\ staging'[req[r].u].chunks[req[r].idx] = req[q].data]_vars

\* C14: an upload/start that finds the session of an earlier upload/start
\* (same path, filename and checksum, hence the same uploadId) reports in
\* uploadedChunks exactly the indices of the committed chunks.
\* (A start request is at "sList" only after loadMeta found the earlier meta.json;
\* it computes uploadedChunks from the directory as it is in that state.)
C14_ResumeReportsCommittedChunks ==
  \A r \in Slots :
    StartAt(r, "sList") => Elems(getUploadedChunks(req[r].u)) = Committed(req[r].u)

C22_AnyOrderCompletes ==
  [][\A r \in Slots :
       LET u == req[r].u IN
       /\ (ChunkAt(r, "list") /\ req'[r] # req[r]) =>
            IF Committed(u) = AllIndices(u) THEN req'[r].pc = "acquire"
            ELSE req'[r].pc = "idle"
       /\ (req[r].kind = "chunk" /\ req'[r].pc = "idle") =>
            \/ ChunkAt(r, "list") /\ Committed(u) # AllIndices(u)
            \/ ChunkAt(r, "stat") /\ dest.exists /\ dest.content = Expected[u]
                                  /\ hist'[u].completed]_vars

\* index 1 was committed before index 0, and the request that carried index 0
\* is about to answer completed:true
C22_Witness ==
  /\ ChunkAt("r1", "stat") /\ req["r1"].u = "u1" /\ req["r1"].idx = 0
  /\ dest.exists /\ dest.content = Expected["u1"]

(***************************************************************************)
(* The file index (src/unnamed/part_001), the scanner (src/src/lib/         *)
(* scanner.ts) and the handlers that index (src/src/handlers/files.ts),     *)
(* over one base whose entries are plain files.                             *)
(***************************************************************************)
\* the response carries fileId = id for the file with inode ino
Reported(id, ino, action) ==
  /\ lastOutcome' = [id |-> id, ino |-> ino, action |-> action]
  /\ firstId' = IF firstId[ino] = 0 THEN [firstId EXCEPT ![ino] = id] ELSE firstId

\* indexFile without its two SELECTs: every call inserts a row
indexFileInsertOnly(relPath, ino) ==
  /\ fileIndex' = fileIndex \cup
                    {[id |-> nextId, path |-> relPath, ino |-> ino, stale |-> FALSE]}
  /\ Reported(nextId, ino, "added")
  /\ nextId' = nextId + 1

\* indexFile(basePath, relPath, s, indexedAt): the row of the path, else a row
\* of the inode (the first one the SELECT returns), else a new row
indexFile(relPath, ino) ==
  LET existingByPath == {r \in fileIndex : r.path = relPath}
      existingByInode == {r \in fileIndex : r.ino = ino}
  IN IF existingByPath # {}
     THEN \E r \in existingByPath :
            /\ fileIndex' = (fileIndex \ {r}) \cup {[r EXCEPT !.ino = ino, !.stale = FALSE]}
            /\ Reported(r.id, ino, "existing")
            /\ UNCHANGED nextId
     ELSE IF existingByInode # {}
     THEN \E r \in existingByInode :
            /\ fileIndex' = (fileIndex \ {r})
                              \cup {[r EXCEPT !.path = relPath, !.stale = FALSE]}
            /\ Reported(r.id, ino, "moved")
            /\ UNCHANGED nextId
     ELSE /\ fileIndex' = fileIndex \cup
                            {[id |-> nextId, path |-> relPath, ino |-> ino, stale |-> FALSE]}
          /\ Reported(nextId, ino, "added")
          /\ nextId' = nextId + 1

\* resolveId(id) over the rows `rows`: the path of the row, "" for null
resolveId(rows, id) ==
  IF \E r \in rows : r.id = id THEN (CHOOSE r \in rows : r.id = id).path ELSE ""

\* identifyPath(basePath, relPath): the id of the path's row, 0 for null
identifyPath(relPath) ==
  IF \E r \in fileIndex : r.path = relPath
  THEN (CHOOSE r \in fileIndex : r.path = relPath).id
  ELSE 0

\* rename(2): the target name now holds the source's inode
Renamed(from, to) == [disk EXCEPT ![to] = disk[from], ![from] = NoFile]

DirExists(dir) == IF dir = "" THEN dirMtime[""] # NoStat ELSE disk[dir] # NoFile

\* the directories in ds get a new mtime
Touched(ds) == [d \in Dirs |-> IF d \in ds THEN dirMtime[d] + 1 ELSE dirMtime[d]]

\* history: the disk or the index was changed outside a scan step
FsChanged == [NoScanHist EXCEPT !.dirty = (scan.pc # "idle")]

\* history: a file that has its index row is renamed while no scan runs
FileRenamed(from, to) ==
  IF scan.pc = "idle" /\ \E r \in fileIndex : r.path = from /\ r.ino = disk[from]
  THEN [FsChanged EXCEPT !.from = from, !.to = to, !.id = identifyPath(from),
                         !.phase = "renamed"]
  ELSE FsChanged

\* PUT /upload of a file p: file.writer() creates p or truncates it in place,
\* then stat and indexFile
PutFile(p) ==
  /\ DirExists(dirOf(p))
  /\ disk[p] # NoFile \/ nextIno <= MaxInodes
  /\ LET ino == IF disk[p] # NoFile THEN disk[p] ELSE nextIno IN
     /\ disk' = [disk EXCEPT ![p] = ino]
     /\ nextIno' = IF disk[p] # NoFile THEN nextIno ELSE nextIno + 1
     /\ dirMtime' = IF disk[p] # NoFile THEN dirMtime ELSE Touched({dirOf(p)})
     /\ indexFile(p, ino)
  /\ scanHist' = FsChanged
  /\ UNCHANGED <<pathVars, uploadVars, transferVars, poolVars, clientVars, calls>>
  /\ UNCHANGED <<moves, scanState, scan>>

\* POST /mkdir of directory p: mkdir(realPath, {recursive: true}) creates p or
\* leaves it as it is, then stat and indexFile
Mkdir(p) ==
  /\ DirExists(dirOf(p))
  /\ disk[p] # NoFile \/ nextIno <= MaxInodes
  /\ LET ino == IF disk[p] # NoFile THEN disk[p] ELSE nextIno IN
     /\ disk' = [disk EXCEPT ![p] = ino]
     /\ nextIno' = IF disk[p] # NoFile THEN nextIno ELSE nextIno + 1
     /\ dirMtime' = IF disk[p] # NoFile THEN dirMtime ELSE Touched({dirOf(p)})
     /\ indexFile(p, ino)
  /\ scanHist' = FsChanged
  /\ UNCHANGED <<pathVars, uploadVars, transferVars, poolVars, clientVars, calls>>
  /\ UNCHANGED <<moves, scanState, scan>>

\* another process renames a file inside the base
Rename(from, to) ==
  /\ from # to /\ disk[from] # NoFile /\ DirExists(dirOf(to)) /\ moves < MaxMoves
  /\ disk' = Renamed(from, to)
  /\ dirMtime' = Touched({dirOf(from), dirOf(to)})
  /\ moves' = moves + 1
  /\ scanHist' = FileRenamed(from, to)
  /\ UNCHANGED <<pathVars, uploadVars, transferVars, poolVars, clientVars, calls>>
  /\ UNCHANGED <<nextIno, fileIndex, scanState, nextId, scan, lastOutcome, firstId>>

\* another process removes a file inside the base
Remove(p) ==
  /\ disk[p] # NoFile /\ moves < MaxMoves
  /\ disk' = [disk EXCEPT ![p] = NoFile]
  /\ dirMtime' = Touched({dirOf(p)})
  /\ moves' = moves + 1
  /\ scanHist' = FsChanged
  /\ UNCHANGED <<pathVars, uploadVars, transferVars, poolVars, clientVars, calls>>
  /\ UNCHANGED <<nextIno, fileIndex, scanState, nextId, scan, lastOutcome, firstId>>

\* DELETE /delete of a file p: stat, removeFromIndex(basePath, relPath), rm
Delete(p) ==
  /\ disk[p] # NoFile
  /\ fileIndex' = {r \in fileIndex : r.path # p}
  /\ disk' = [disk EXCEPT ![p] = NoFile]
  /\ dirMtime' = Touched({dirOf(p)})
  /\ scanHist' = FsChanged
  /\ UNCHANGED <<pathVars, uploadVars, transferVars, poolVars, clientVars, calls>>
  /\ UNCHANGED <<nextIno, moves, scanState, nextId, scan, lastOutcome, firstId>>

\* the base directory goes away with all it holds (removed or unmounted)
RemoveBase ==
  /\ DirExists("")
  /\ disk' = [e \in Entries |-> NoFile]
  /\ dirMtime' = [d \in Dirs |-> NoStat]
  /\ scanHist' = FsChanged
  /\ UNCHANGED <<pathVars, uploadVars, transferVars, poolVars, clientVars, calls>>
  /\ UNCHANGED <<nextIno, moves, fileIndex, scanState, nextId, scan, lastOutcome, firstId>>

\* POST /transfer, mode "move": identifyPath(source), rename, then
\* updateIndexPath(existingId) (UNIQUE(base_path, rel_path) makes it throw when
\* the target path has a row: caught, response without fileId) or indexFile
Move(from, to) ==
  /\ from # to /\ disk[from] # NoFile /\ DirExists(dirOf(to)) /\ moves < MaxMoves
  /\ disk' = Renamed(from, to)
  /\ dirMtime' = Touched({dirOf(from), dirOf(to)})
  /\ moves' = moves + 1
  /\ scanHist' = FileRenamed(from, to)
  /\ LET existingId == identifyPath(from) IN
     IF existingId # 0
     THEN IF \E r \in fileIndex : r.path = to
          THEN UNCHANGED <<fileIndex, nextId, lastOutcome, firstId>>
          ELSE /\ fileIndex' = {IF r.id = existingId THEN [r EXCEPT !.path = to] ELSE r
                                  : r \in fileIndex}
               /\ Reported(existingId, disk[from], "moved")
               /\ UNCHANGED nextId
     ELSE indexFile(to, disk[from])
  /\ UNCHANGED <<pathVars, uploadVars, transferVars, poolVars, clientVars, calls>>
  /\ UNCHANGED <<nextIno, scanState, scan>>

\* scanBasePath: scanStart = Date.now() (every row's indexed_at is older from
\* here on: stale); queue = [basePath]; a worker starts
ScanStart ==
  /\ scan.pc = "idle"
  /\ fileIndex' = {[r EXCEPT !.stale = TRUE] : r \in fileIndex}
  /\ scan' = [IdleScan EXCEPT !.pc = "dir", !.queue = <<"">>]
  /\ scanHist' = IF scanHist.phase = "renamed"
                 THEN [scanHist EXCEPT !.phase = "scanning", !.dirty = FALSE, !.clean = FALSE]
                 ELSE [NoScanHist EXCEPT !.quiet = scanHist.clean]
  /\ UNCHANGED <<pathVars, uploadVars, transferVars, poolVars, clientVars, calls>>
  /\ UNCHANGED <<disk, dirMtime, nextIno, moves, scanState, nextId, lastOutcome, firstId>>

\* a touch that matches no row
touchIndexedAtUnderDirNone(dir) == fileIndex

\* touchIndexedAtUnderDir(basePath, dirPath, scanStart)
touchIndexedAtUnderDir(dir) ==
  {IF r.path \in Under(dir) THEN [r EXCEPT !.stale = FALSE] ELSE r : r \in fileIndex}

\* the worker: dir = queue.shift() (empty -> the worker ends and
\* Promise.all(workers) resolves); processDir(dir): stat, getScanState; an
\* unchanged mtime -> touchIndexedAtUnderDir, setScanState, return; else readdir
ScanDir ==
  /\ scan.pc = "dir"
  /\ IF scan.queue = <<>>
     THEN /\ scan' = [scan EXCEPT !.pc = "sweep"]
          /\ UNCHANGED fileIndex
     ELSE LET dir == Head(scan.queue) IN
          IF ~DirExists(dir)
          THEN /\ scan' = [scan EXCEPT !.queue = Tail(scan.queue)]
               /\ UNCHANGED fileIndex
          ELSE IF scanState[dir] = dirMtime[dir]
          THEN /\ fileIndex' = touchIndexedAtUnderDir(dir)
               /\ scan' = [scan EXCEPT !.queue = Tail(scan.queue),
                                       !.skipped = scan.skipped + 1]
          ELSE /\ scan' = [scan EXCEPT !.pc = "entries", !.queue = Tail(scan.queue),
                                       !.scanned = scan.scanned + 1,
                                       !.cur = dir, !.mtime = dirMtime[dir],
                                       !.todo = {e \in Entries : dirOf(e) = dir
                                                                 /\ disk[e] # NoFile}]
               /\ UNCHANGED fileIndex
  /\ UNCHANGED <<pathVars, uploadVars, transferVars, poolVars, clientVars, calls>>
  /\ UNCHANGED <<disk, dirMtime, nextIno, moves, scanState, nextId, lastOutcome, firstId,
                 scanHist>>

\* one turn of "for (const entry of entries)": stat (gone -> continue),
\* indexFile, a directory is pushed on the queue; after the last entry
\* setScanState(basePath, relDir, dirStat.mtimeMs, scanStart)
ScanEntry ==
  /\ scan.pc = "entries"
  /\ IF scan.todo = {}
     THEN /\ scanState' = [scanState EXCEPT ![scan.cur] = scan.mtime]
          /\ scan' = [scan EXCEPT !.pc = "dir"]
          /\ UNCHANGED <<fileIndex, nextId, lastOutcome, firstId>>
     ELSE \E e \in scan.todo :
            /\ UNCHANGED scanState
            /\ IF disk[e] = NoFile
               THEN /\ scan' = [scan EXCEPT !.todo = scan.todo \ {e}]
                    /\ UNCHANGED <<fileIndex, nextId, lastOutcome, firstId>>
               ELSE /\ indexFile(e, disk[e])
                    /\ scan' = [scan EXCEPT
                         !.todo = scan.todo \ {e},
                         !.queue = IF e \in SubDirs THEN Append(scan.queue, e)
                                   ELSE scan.queue,
                         !.added = scan.added
                                     + (IF lastOutcome'.action = "added" THEN 1 ELSE 0),
                         !.moved = scan.moved
                                     + (IF lastOutcome'.action = "moved" THEN 1 ELSE 0)]
  /\ UNCHANGED <<pathVars, uploadVars, transferVars, poolVars, clientVars, calls>>
  /\ UNCHANGED <<disk, dirMtime, nextIno, moves, scanHist>>

\* removeStaleEntries(basePath, scanStart): DELETE ... WHERE indexed_at < scanStart
ScanSweep ==
  /\ scan.pc = "sweep"
  /\ fileIndex' = {r \in fileIndex : ~r.stale}
  /\ scan' = IdleScan
  /\ scanHist' = [scanHist EXCEPT !.dirty = FALSE, !.clean = ~scanHist.dirty,
                                  !.quiet = FALSE,
                                  !.phase = IF scanHist.phase = "scanning"
                                            THEN "scanned" ELSE scanHist.phase]
  /\ UNCHANGED <<pathVars, uploadVars, transferVars, poolVars, clientVars, calls>>
  /\ UNCHANGED <<disk, dirMtime, nextIno, moves, scanState, nextId, lastOutcome, firstId>>

\* a table without its UNIQUE constraint
UniqueOff(rows, id, path) == TRUE

\* UNIQUE(base_path, rel_path): a statement that would leave a second row
\* with the path of row `id` fails
UniqueOk(rows, id, path) == \A r \in rows : r.path = path => r.id = id

\* the frame of one statement of an indexFile call
CallFrame ==
  /\ UNCHANGED <<pathVars, uploadVars, transferVars, poolVars, clientVars>>
  /\ UNCHANGED <<disk, dirMtime, nextIno, moves, scanState, scan, lastOutcome, firstId,
                 scanHist>>

\* a caller has stat'ed the file at p and calls indexFile(base, p, stat)
IndexFileCall(c, p) ==
  /\ calls[c].pc = "idle" /\ disk[p] # NoFile
  /\ calls' = [calls EXCEPT ![c] = [pc |-> "byPath", path |-> p, ino |-> disk[p], id |-> 0]]
  /\ UNCHANGED <<fileIndex, nextId>>
  /\ CallFrame

\* SELECT id ... WHERE base_path = ? AND rel_path = ?
SelectByPath(c) ==
  /\ calls[c].pc = "byPath"
  /\ LET found == {r \in fileIndex : r.path = calls[c].path} IN
     IF found # {}
     THEN \E r \in found : calls' = [calls EXCEPT ![c].pc = "updExisting", ![c].id = r.id]
     ELSE calls' = [calls EXCEPT ![c].pc = "byInode"]
  /\ UNCHANGED <<fileIndex, nextId>>
  /\ CallFrame

\* UPDATE ... SET dev, ino, ..., indexed_at WHERE id = existingByPath.id
UpdateExisting(c) ==
  /\ calls[c].pc = "updExisting"
  /\ fileIndex' = {IF r.id = calls[c].id
                   THEN [r EXCEPT !.ino = calls[c].ino, !.stale = FALSE] ELSE r
                     : r \in fileIndex}
  /\ calls' = [calls EXCEPT ![c] = IdleCall]
  /\ UNCHANGED nextId
  /\ CallFrame

\* SELECT id ... WHERE dev = ? AND ino = ?
SelectByInode(c) ==
  /\ calls[c].pc = "byInode"
  /\ LET found == {r \in fileIndex : r.ino = calls[c].ino} IN
     IF found # {}
     THEN \E r \in found : calls' = [calls EXCEPT ![c].pc = "updMoved", ![c].id = r.id]
     ELSE calls' = [calls EXCEPT ![c].pc = "insert"]
  /\ UNCHANGED <<fileIndex, nextId>>
  /\ CallFrame

\* UPDATE ... SET base_path, rel_path, ... WHERE id = existingByInode.id; the
\* statement throws when another row has the path
UpdateMoved(c) ==
  /\ calls[c].pc = "updMoved"
  /\ fileIndex' = IF (\E r \in fileIndex : r.id = calls[c].id)
                     /\ UniqueOk(fileIndex, calls[c].id, calls[c].path)
                  THEN {IF r.id = calls[c].id
                        THEN [r EXCEPT !.path = calls[c].path, !.stale = FALSE] ELSE r
                          : r \in fileIndex}
                  ELSE fileIndex
  /\ calls' = [calls EXCEPT ![c] = IdleCall]
  /\ UNCHANGED nextId
  /\ CallFrame

\* id = generateId(); INSERT INTO file_index ...; the statement throws when a
\* row has the path
InsertRow(c) ==
  /\ calls[c].pc = "insert"
  /\ IF UniqueOk(fileIndex, nextId, calls[c].path)
     THEN /\ fileIndex' = fileIndex \cup {[id |-> nextId, path |-> calls[c].path,
                                          ino |-> calls[c].ino, stale |-> FALSE]}
          /\ nextId' = nextId + 1
     ELSE UNCHANGED <<fileIndex, nextId>>
  /\ calls' = [calls EXCEPT ![c] = IdleCall]
  /\ CallFrame

\* files are renamed and deleted while callers index them statement by
\* statement
NextCallers ==
  \/ \E from, to \in Files : Rename(from, to)
  \/ \E p \in Files : Delete(p)
  \/ \E c \in Callers, p \in Files : IndexFileCall(c, p)
  \/ \E c \in Callers :
       \/ SelectByPath(c) \/ UpdateExisting(c) \/ SelectByInode(c)
       \/ UpdateMoved(c) \/ InsertRow(c)

NextIndex ==
  \/ \E p \in Files : PutFile(p)
  \/ \E p \in SubDirs : Mkdir(p)
  \/ \E from, to \in Files : Rename(from, to)
  \/ \E p \in Files : Remove(p)
  \/ \E p \in Files : Delete(p)
  \/ \E from, to \in Files : Move(from, to)
  \/ ScanStart \/ ScanDir \/ ScanEntry \/ ScanSweep

InitIndex ==
  /\ InitIndexVars
  /\ InitUploadVars
  /\ InitPoolVars
  /\ InitClientVars
  /\ InitTransferVars
  /\ fs = Skeleton
  /\ realBaseCache = [b \in {} |-> NoPath]
  /\ lastReq = NoRequest

SpecIndex == InitIndex /\ [][NextIndex]_vars

\* the handlers and the other processes alone, no scan running
NextStore ==
  \/ \E p \in Files : PutFile(p)
  \/ \E p \in SubDirs : Mkdir(p)
  \/ \E from, to \in Files : Rename(from, to)
  \/ \E p \in Files : Remove(p)
  \/ \E p \in Files : Delete(p)
  \/ \E from, to \in Files : Move(from, to)

SpecStore == InitIndex /\ [][NextStore]_vars

\* a base that holds the files a and b, none of them indexed yet
InitCallers ==
  /\ disk = [e \in Entries |-> IF e = "a" THEN 1 ELSE IF e = "b" THEN 2 ELSE NoFile]
  /\ dirMtime = [d \in Dirs |-> 0]
  /\ nextIno = 3 /\ moves = 0 /\ nextId = 1
  /\ fileIndex = {}
  /\ scanState = [d \in Dirs |-> NoScanState]
  /\ scan = IdleScan /\ lastOutcome = NoOutcome
  /\ firstId = [i \in Inodes |-> 0]
  /\ scanHist = NoScanHist
  /\ calls = [c \in Callers |-> IdleCall]
  /\ InitUploadVars
  /\ InitPoolVars
  /\ InitClientVars
  /\ InitTransferVars
  /\ fs = Skeleton
  /\ realBaseCache = [b \in {} |-> NoPath]
  /\ lastReq = NoRequest

SpecCallers == InitCallers /\ [][NextCallers]_vars

\* uploads, mkdirs, deletes and the loss of the base, before, between and
\* during scans
NextScan ==
  \/ \E p \in Files : PutFile(p)
  \/ \E p \in SubDirs : Mkdir(p)
  \/ \E p \in Files : Delete(p)
  \/ RemoveBase
  \/ ScanStart \/ ScanDir \/ ScanEntry \/ ScanSweep

SpecScan == InitIndex /\ [][NextScan]_vars

(***************************************************************************)
(* scanBasePath with its workers (src/src/lib/scanner.ts 31-100), and      *)
(* several calls of it at a time.  The rows carry indexed_at; the tree on  *)
(* the disk does not change while these scans run.                         *)
(***************************************************************************)
\* indexFile(basePath, relPath, s, indexedAt) on the rows `rows`
indexFileAt(rows, next, relPath, ino, at) ==
  LET existingByPath == {r \in rows : r.path = relPath}
      existingByInode == {r \in rows : r.ino = ino}
  IN IF existingByPath # {}
     THEN LET r == CHOOSE x \in existingByPath : TRUE IN
          [rows |-> (rows \ {r}) \cup {[r EXCEPT !.ino = ino, !.at = at]}, next |-> next]
     ELSE IF existingByInode # {}
     THEN LET r == CHOOSE x \in existingByInode : TRUE IN
          [rows |-> (rows \ {r}) \cup {[r EXCEPT !.path = relPath, !.at = at]},
           next |-> next]
     ELSE [rows |-> rows \cup {[id |-> next, path |-> relPath, ino |-> ino, at |-> at]},
           next |-> next + 1]

\* touchIndexedAtUnderDir(basePath, dirPath, indexedAt)
touchAt(rows, dir, at) ==
  {IF r.path \in Under(dir) THEN [r EXCEPT !.at = at] ELSE r : r \in rows}

\* removeStaleEntries(basePath, beforeMs)
removeStaleAt(rows, beforeMs) == {r \in rows : ~(r.at < beforeMs)}

Active(wk) == wk.pc \in {"stat", "entries", "shift"}

\* await Promise.race(workers): the first worker to end is enough
AnyEnded(s) == \E w \in Workers : scans[s].workers[w].pc = "ended"

\* await Promise.all(workers): every worker function has returned
AllEnded(s) == \A w \in Workers : scans[s].workers[w].pc = "ended"

\* scanBasePath(basePath) up to its first await: scanStart = Date.now(),
\* queue = [basePath], and Array.from({length: concurrency}, async () => ...)
\* runs each worker function to its first await in turn: the first worker
\* shifts basePath and awaits stat inside processDir, every later worker finds
\* the queue empty and breaks
PoolStart(s) ==
  /\ scans[s].pc \in {"idle", "done", "failed"}
  /\ \A w \in Workers : ~Active(scans[s].workers[w])
  /\ scans' = [scans EXCEPT ![s] =
       [IdleScanCall EXCEPT
          !.pc = "run", !.start = now, !.queued = {""},
          !.workers = [w \in Workers |->
                         IF w = WorkerOrder[1] THEN [EndedWorker EXCEPT !.pc = "stat"]
                         ELSE EndedWorker]]]
  /\ UNCHANGED <<pathVars, uploadVars, transferVars, clientVars>>
  /\ UNCHANGED <<indexVars, table>>

\* processDir: stat (missing -> return); getScanState; an unchanged mtime ->
\* skipped++, touchIndexedAtUnderDir, setScanState, return; else readdir, which
\* may throw (EACCES): the worker's promise rejects and with it Promise.all
WorkerStat(s, w) ==
  LET wk == scans[s].workers[w]
      dir == wk.dir
  IN /\ wk.pc = "stat"
     /\ IF ~DirExists(dir)
        THEN /\ scans' = [scans EXCEPT ![s].workers[w].pc = "shift",
                                       ![s].finished = @ \cup {dir}]
             /\ UNCHANGED table
        ELSE IF scanState[dir] = dirMtime[dir]
        THEN /\ table' = touchAt(table, dir, scans[s].start)
             /\ scans' = [scans EXCEPT ![s].workers[w].pc = "shift",
                                       ![s].finished = @ \cup {dir},
                                       ![s].late = @ \/ scans[s].pc = "done"]
        ELSE /\ UNCHANGED table
             /\ \E throws \in BOOLEAN :
                  IF throws
                  THEN scans' = [scans EXCEPT
                         ![s].workers[w].pc = "threw",
                         ![s].pc = IF @ = "run" THEN "failed" ELSE @]
                  ELSE scans' = [scans EXCEPT
                         ![s].workers[w] =
                            [pc |-> "entries", dir |-> dir, mtime |-> dirMtime[dir],
                             todo |-> {e \in Entries : dirOf(e) = dir /\ disk[e] # NoFile}]]
     /\ UNCHANGED <<pathVars, uploadVars, transferVars, clientVars>>
     /\ UNCHANGED indexVars

\* one turn of "for (const entry of entries)": stat, indexFile with scanStart,
\* a directory is pushed on the queue; after the last entry setScanState
WorkerEntry(s, w) ==
  LET wk == scans[s].workers[w] IN
  /\ wk.pc = "entries"
  /\ IF wk.todo = {}
     THEN /\ scanState' = [scanState EXCEPT ![wk.dir] = wk.mtime]
          /\ scans' = [scans EXCEPT ![s].workers[w].pc = "shift",
                                    ![s].finished = @ \cup {wk.dir}]
          /\ UNCHANGED <<table, nextId>>
     ELSE \E e \in wk.todo :
            LET ix == indexFileAt(table, nextId, e, disk[e], scans[s].start) IN
            /\ table' = ix.rows
            /\ nextId' = ix.next
            /\ scans' = [scans EXCEPT
                 ![s].workers[w].todo = @ \ {e},
                 ![s].queue = IF e \in SubDirs THEN Append(@, e) ELSE @,
                 ![s].queued = IF e \in SubDirs THEN @ \cup {e} ELSE @,
                 ![s].late = @ \/ scans[s].pc = "done"]
            /\ UNCHANGED scanState
  /\ UNCHANGED <<pathVars, uploadVars, transferVars, clientVars>>
  /\ UNCHANGED <<disk, dirMtime, nextIno, moves, fileIndex, scan, lastOutcome, firstId,
                 scanHist, calls>>

\* the worker's loop: const dir = queue.shift(); if (!dir) break;
\* await processDir(dir)
WorkerShift(s, w) ==
  /\ scans[s].workers[w].pc = "shift"
  /\ scans' = [scans EXCEPT
       ![s].workers[w] = IF scans[s].queue = <<>> THEN EndedWorker
                         ELSE [EndedWorker EXCEPT !.pc = "stat",
                                                  !.dir = Head(scans[s].queue)],
       ![s].queue = IF @ = <<>> THEN @ ELSE Tail(@)]
  /\ UNCHANGED <<pathVars, uploadVars, transferVars, clientVars>>
  /\ UNCHANGED <<indexVars, table>>

\* await Promise.all(workers); result.removed = await removeStaleEntries(
\* basePath, scanStart)
PoolSweep(s) ==
  /\ scans[s].pc = "run"
  /\ AllEnded(s)
  /\ table' = removeStaleAt(table, scans[s].start)
  /\ scans' = [scans EXCEPT ![s].pc = "done"]
  /\ UNCHANGED <<pathVars, uploadVars, transferVars, clientVars>>
  /\ UNCHANGED indexVars

\* one scan at a time
NextWorkers ==
  \/ PoolStart("s1")
  \/ \E w \in Workers : WorkerStat("s1", w)
  \/ \E w \in Workers : WorkerEntry("s1", w)
  \/ \E w \in Workers : WorkerShift("s1", w)
  \/ PoolSweep("s1")
  \/ Tick

\* scans that overlap
NextOverlap ==
  \/ \E s \in Scans : PoolStart(s)
  \/ \E s \in Scans, w \in Workers : WorkerStat(s, w)
  \/ \E s \in Scans, w \in Workers : WorkerEntry(s, w)
  \/ \E s \in Scans, w \in Workers : WorkerShift(s, w)
  \/ \E s \in Scans : PoolSweep(s)
  \/ Tick

\* the base holds the directory d and the file d/a, indexed by an earlier scan
\* (at time 0) or not yet
InitPool ==
  /\ disk = [e \in Entries |-> IF e = "d" THEN 1 ELSE IF e = "d/a" THEN 2 ELSE NoFile]
  /\ dirMtime = [d \in Dirs |-> 0]
  /\ nextIno = 3 /\ moves = 0
  /\ fileIndex = {}
  /\ scanState = [d \in Dirs |-> NoScanState]
  /\ scan = IdleScan /\ lastOutcome = NoOutcome
  /\ firstId = [i \in Inodes |-> 0]
  /\ scanHist = NoScanHist
  /\ calls = [c \in Callers |-> IdleCall]
  /\ \/ table = {} /\ nextId = 1
     \/ /\ table = {[id |-> 1, path |-> "d", ino |-> 1, at |-> 0],
                    [id |-> 2, path |-> "d/a", ino |-> 2, at |-> 0]}
        /\ nextId = 3
  /\ scans = [s \in Scans |-> IdleScanCall]
  /\ InitUploadVars
  /\ InitClientVars
  /\ InitTransferVars
  /\ fs = Skeleton
  /\ realBaseCache = [b \in {} |-> NoPath]
  /\ lastReq = NoRequest

SpecWorkers == InitPool /\ [][NextWorkers]_vars

SpecOverlap == InitPool /\ [][NextOverlap]_vars

(***************************************************************************)
(* The client's ChunkedUpload (src/src/utils.ts).  A step is what runs     *)
(* between two awaits: the call of sendAll up to its first await, and the  *)
(* settling of one invocation of fn with everything that follows from it.  *)
(***************************************************************************)
\* the indexes a caller may name: those of the file and one beyond them
CallerIndexes == 0..TotalChunks

\* complete({ index })
complete(c, index) ==
  IF index \in c.completed THEN c
  ELSE LET done == c.completed \cup {index}
           uploaded == Cardinality(done)
       IN [c EXCEPT !.completed = done,
                    !.uploaded = uploaded,
                    !.status = IF uploaded = TotalChunks THEN "completed"
                               ELSE "uploading"]

\* for (const index of skip) this.complete({ index })
RECURSIVE completeEach(_, _)
completeEach(c, indexes) ==
  IF indexes = {} THEN c
  ELSE LET index == CHOOSE i \in indexes : \A j \in indexes : i <= j
       IN completeEach(complete(c, index), indexes \ {index})

RECURSIVE Ascending(_)
Ascending(S) ==
  IF S = {} THEN <<>>
  ELSE LET least == CHOOSE i \in S : \A j \in S : i <= j
       IN <<least>> \o Ascending(S \ {least})

\* every index of the file, whatever was skipped or completed
toUploadEvery(c, skipSet) == Ascending(ClientChunks)

\* the indices that need to be uploaded
toUpload(c, skipSet) ==
  Ascending({i \in ClientChunks : i \notin skipSet /\ i \notin c.completed})

\* send() up to its first await, for the indexes sendAll starts now: one with
\* concurrency 1 (the sequential loop awaits each send), else as many as bring
\* inFlight to the concurrency limit; the first attempt of send invokes fn
RECURSIVE startUploads(_)
startUploads(c) ==
  IF c.queue # <<>> /\ Cardinality(c.inFlight) < c.concurrency
  THEN LET index == Head(c.queue)
       IN startUploads([c EXCEPT !.queue = Tail(c.queue),
                                 !.inFlight = c.inFlight \cup {index},
                                 !.attempt[index] = 0,
                                 !.calls[index] = c.calls[index] + 1])
  ELSE c

\* sendAll's loops are over: nothing waits and nothing is in flight
finishIfDone(c) ==
  IF c.queue = <<>> /\ c.inFlight = {}
  THEN [c EXCEPT !.status = "completed", !.phase = "finished"]
  ELSE c

\* the caller's `await upload.sendAll(...)` continues, with the value or in
\* its catch, and nothing is in flight any more: what was recorded of the call
\* is dropped
SendAllSettled ==
  /\ client.phase \in {"finished", "rejected"}
  /\ client.inFlight = {}
  /\ client' = [NewClient EXCEPT !.completed = client.completed,
                                 !.uploaded = client.uploaded,
                                 !.status = client.status]
  /\ UNCHANGED <<pathVars, uploadVars, transferVars, poolVars>>
  /\ UNCHANGED indexVars

\* upload.complete({ index }) called by the user of the object
Complete(index) ==
  /\ client.phase = "idle"
  /\ client' = complete(client, index)
  /\ UNCHANGED <<pathVars, uploadVars, transferVars, poolVars>>
  /\ UNCHANGED indexVars

\* upload.reset()
Reset ==
  /\ client.phase \in {"idle", "rejected"}
  /\ client' = [client EXCEPT !.completed = {}, !.uploaded = 0, !.status = "pending"]
  /\ UNCHANGED <<pathVars, uploadVars, transferVars, poolVars>>
  /\ UNCHANGED indexVars

\* sendAll({ skip, retries, concurrency, fn }) up to its first await
SendAll(skip, concurrency, retries) ==
  /\ client.phase = "idle"
  /\ LET skipped == completeEach(client, skip)
         c == [skipped EXCEPT !.status = "uploading",
                              !.phase = "running",
                              !.skip = skip,
                              !.concurrency = concurrency,
                              !.retries = retries,
                              !.queue = toUpload(skipped, skip),
                              !.attempt = [i \in ClientChunks |-> 0],
                              !.calls = [i \in ClientChunks |-> 0],
                              !.before = client.completed,
                              !.failed = FALSE]
     IN client' = finishIfDone(startUploads(c))
  /\ UNCHANGED <<pathVars, uploadVars, transferVars, poolVars>>
  /\ UNCHANGED indexVars

\* fn resolves for a chunk in flight: send completes the chunk and returns;
\* a sendAll that is still waiting goes on with its loop
FnReturns(index) ==
  /\ index \in client.inFlight
  /\ LET c == complete([client EXCEPT !.inFlight = client.inFlight \ {index}], index)
     IN client' = IF client.phase = "running"
                  THEN finishIfDone(startUploads(c))
                  ELSE c
  /\ UNCHANGED <<pathVars, uploadVars, transferVars, poolVars>>
  /\ UNCHANGED indexVars

\* fn rejects for a chunk in flight: send tries again after its backoff, or,
\* the retries used up, sets the status and throws, which rejects a sendAll
\* that is still waiting; the other sends in flight go on
FnThrows(index) ==
  /\ index \in client.inFlight
  /\ IF client.attempt[index] < client.retries
     THEN client' = [client EXCEPT !.attempt[index] = client.attempt[index] + 1,
                                   !.calls[index] = client.calls[index] + 1,
                                   !.failed = TRUE]
     ELSE client' = [client EXCEPT !.inFlight = client.inFlight \ {index},
                                   !.status = "error",
                                   !.failed = TRUE,
                                   !.phase = IF client.phase = "running"
                                             THEN "rejected" ELSE client.phase]
  /\ UNCHANGED <<pathVars, uploadVars, transferVars, poolVars>>
  /\ UNCHANGED indexVars

NextClient ==
  \/ \E index \in CallerIndexes : Complete(index)
  \/ Reset
  \/ \E skip \in SUBSET CallerIndexes, concurrency \in 1..MaxConcurrency,
        retries \in 0..MaxRetries : SendAll(skip, concurrency, retries)
  \/ \E index \in ClientChunks : FnReturns(index)
  \/ \E index \in ClientChunks : FnThrows(index)
  \/ SendAllSettled

InitClient ==
  /\ fs = Skeleton
  /\ realBaseCache = [b \in {} |-> NoPath]
  /\ lastReq = NoRequest
  /\ InitUploadVars
  /\ InitPoolVars
  /\ InitClientVars
  /\ InitIndexVars
  /\ InitTransferVars

SpecClient == InitClient /\ [][NextClient]_vars

(***************************************************************************)
(* Claims about the file index.                                            *)
(***************************************************************************)
\* C10: the id reported for an inode is always the id first assigned to that
\* inode, across renames followed by indexFile or a scan.
C10_IdOfInodeNeverChanges ==
  lastOutcome.ino # NoFile => lastOutcome.id = firstId[lastOutcome.ino]

\* the relative paths that have a row, and the entries that exist on disk
IndexedPaths == {r.path : r \in fileIndex}

OnDisk == {e \in Entries : disk[e] # NoFile}

\* C11: after an indexed file was renamed inside the base and the next scan
\* has completed, identifyPath of the new path is the id the file had before
\* the rename and identifyPath of the old path is null.
C11_ScanFollowsRename ==
  scanHist.phase = "scanned" =>
    /\ identifyPath(scanHist.to) = scanHist.id
    /\ identifyPath(scanHist.from) = 0

\* C12: after a scan that completed with no filesystem change during it, the
\* paths that have a row are exactly the entries that exist on disk.
C12_ScanMakesIndexMatchDisk ==
  scanHist.clean => IndexedPaths = OnDisk

\* C13: no two rows of the base have the same (dev, ino).
C13_InodeHasOneRow ==
  \A r1, r2 \in fileIndex : r1.ino = r2.ino => r1 = r2

\* what a call indexFile(base, p, stat) with stat.ino = ino has to answer and
\* leave behind, given the rows before the call
IndexFileContract(p, ino) ==
  IF \E r \in fileIndex : r.path = p
  THEN /\ lastOutcome'.action = "existing"
       /\ lastOutcome'.id = identifyPath(p)
  ELSE IF \E r \in fileIndex : r.ino = ino
  THEN /\ lastOutcome'.action = "moved"
       /\ lastOutcome'.id \in {r.id : r \in {x \in fileIndex : x.ino = ino}}
       /\ resolveId(fileIndex', lastOutcome'.id) = p
  ELSE /\ lastOutcome'.action = "added"
       /\ lastOutcome'.id \notin {r.id : r \in fileIndex}
       /\ resolveId(fileIndex', lastOutcome'.id) = p

\* C21: indexFile answers "existing" with the id of the path's row when the
\* path has a row, whatever inode that row stored; else "moved" with the id of
\* a row of the same inode, and that id then resolves to the path; else
\* "added" with an id no row had.
C21_IndexFileContract ==
  [][/\ \A p \in Files : PutFile(p) => IndexFileContract(p, disk'[p])
     /\ \A p \in SubDirs : Mkdir(p) => IndexFileContract(p, disk'[p])]_vars

\* an "existing" answer for a path whose row stored another inode: the id has
\* been reported for two inodes
C21_Witness ==
  /\ lastOutcome.action = "existing"
  /\ \E i \in Inodes : i # lastOutcome.ino /\ firstId[i] = lastOutcome.id

\* C32: after a successful move of a file that has an index row, the row of
\* the new location carries the id the source had, resolveId of that id gives
\* the new location, and the old location has no row - also when the
\* destination path had a row before.
C32_MoveKeepsId ==
  [][\A from, to \in Files :
       (Move(from, to) /\ identifyPath(from) # 0)
         => LET id == identifyPath(from) IN
            /\ \E r \in fileIndex' : r.path = to /\ r.id = id
            /\ resolveId(fileIndex', id) = to
            /\ ~\E r \in fileIndex' : r.path = from]_vars

\* C27: no two rows of file_index have the same (basePath, relPath), whatever
\* index-store calls have run and however the statements of concurrent
\* indexFile calls interleave.
C27_PathHasOneRow ==
  \A r1, r2 \in fileIndex : r1.path = r2.path => r1 = r2

\* two callers found no row for the same path and inode; one has inserted
\* its row, the other is about to run its INSERT
C27_Witness ==
  \E c \in Callers :
    /\ calls[c].pc = "insert"
    /\ \E r \in fileIndex : r.path = calls[c].path /\ r.ino = calls[c].ino

IdsAndPaths(rows) == {[id |-> r.id, path |-> r.path] : r \in rows}

\* C23: a scan step that takes a directory whose scan_state mtime_ms equals
\* its mtime on disk counts it as skipped and goes on to the next directory
\* with no indexFile call (no count of added, moved or scanned changes, no id
\* is generated, no row's id or path changes); and in a scan that follows an
\* undisturbed scan with no change in between or during it, added and moved
\* stay 0 and no step, the final removeStaleEntries included, changes the
\* rows' ids and paths.
C23_UnchangedDirsAreSkipped ==
  [][/\ ( /\ scan.pc = "dir" /\ scan.queue # <<>> /\ scan' # scan
          /\ DirExists(Head(scan.queue))
          /\ scanState[Head(scan.queue)] = dirMtime[Head(scan.queue)] )
        => /\ scan'.skipped = scan.skipped + 1
           /\ scan'.pc = "dir" /\ scan'.queue = Tail(scan.queue)
           /\ scan'.scanned = scan.scanned
           /\ scan'.added = scan.added /\ scan'.moved = scan.moved
           /\ nextId' = nextId /\ lastOutcome' = lastOutcome
           /\ IdsAndPaths(fileIndex') = IdsAndPaths(fileIndex)
     /\ (scanHist.quiet /\ scan.pc # "idle" /\ scan' # scan)
        => /\ scan.added = 0 /\ scan.moved = 0
           /\ IdsAndPaths(fileIndex') = IdsAndPaths(fileIndex)]_vars

\* the second of two scans with nothing changed since the first began: the
\* base was skipped, the rows are there, and removeStaleEntries is next
C23_Witness ==
  /\ scan.pc = "sweep" /\ scanHist.quiet
  /\ scan.skipped = 1 /\ scan.scanned = 0
  /\ Cardinality(fileIndex) >= 2

\* C30: a scan in which the base directory could not be stat'ed (nothing was
\* scanned and nothing skipped when the workers are done) has no row to
\* remove: removeStaleEntries finds no row of the base older than the scan.
C30_MissingBaseRemovesNothing ==
  (scan.pc = "sweep" /\ scan.scanned = 0 /\ scan.skipped = 0)
    => {r \in fileIndex : r.stale} = {}

\* C33: when a scan has made its stale sweep, every directory that was ever
\* put on its queue has been processed to the end, the queue is empty and no
\* worker is running; none of its indexFile or touchIndexedAtUnderDir calls
\* came after the sweep.
C33_SweepAfterAllWorkers ==
  \A s \in Scans :
    scans[s].pc = "done" =>
      /\ scans[s].queue = <<>>
      /\ \A w \in Workers : ~Active(scans[s].workers[w])
      /\ scans[s].finished = scans[s].queued
      /\ ~scans[s].late

\* a scan that went through the base and through d, indexed both entries and
\* has swept
C33_Witness ==
  /\ scans["s1"].pc = "done"
  /\ scans["s1"].finished = {"", "d"}
  /\ \A r \in table : r.at = scans["s1"].start
  /\ Cardinality(table) = 2

\* C37: the stale sweep of a scan deletes no row of an entry that is on the
\* disk under the row's path, also while another scan of the base is running:
\* the entry keeps its id.
C37_OverlappingScansKeepRows ==
  [][\A s \in Scans :
       PoolSweep(s) =>
         \A r \in table :
           disk[r.path] = r.ino => \E q \in table' : q.path = r.path /\ q.id = r.id]_vars

\* C40: while a scan has a directory waiting in its queue or being processed,
\* none of its max(1, indexScanConcurrency) workers has stopped.
C40_WorkersStayWhileDirsRemain ==
  \A s \in Scans :
    ( /\ scans[s].pc = "run"
      /\ \/ scans[s].queue # <<>>
         \/ \E w \in Workers : scans[s].workers[w].pc \in {"stat", "entries"} )
      => \A w \in Workers : scans[s].workers[w].pc # "ended"

\* C34 as stated: when fn never fails, a sendAll that has returned has invoked
\* fn exactly once for every index of the file that is not in skip and never
\* for an index in skip, and has left uploaded = totalChunks and status
\* "completed".
C34_SendAllCallsEveryUnskipped ==
  (client.phase = "finished" /\ ~client.failed) =>
    /\ \A i \in ClientChunks :
         client.calls[i] = IF i \in client.skip THEN 0 ELSE 1
    /\ client.uploaded = TotalChunks
    /\ client.status = "completed"

\* C34, amended: when fn never fails, a sendAll that has returned has invoked
\* fn exactly once for every index of the file that is neither in skip nor
\* completed already when sendAll was called, and never for another index; it
\* has left status "completed", and uploaded = totalChunks when skip and the
\* chunks completed before hold indexes of the file only.
C34_SendAllCallsEveryMissing ==
  (client.phase = "finished" /\ ~client.failed) =>
    /\ \A i \in ClientChunks :
         client.calls[i] = IF i \in client.skip \/ i \in client.before
                            THEN 0 ELSE 1
    /\ client.status = "completed"
    /\ (client.skip \cup client.before) \subseteq ClientChunks
         => client.uploaded = TotalChunks

\* a sendAll with concurrency 2 that skipped one chunk, found another one
\* completed, uploaded the third and has returned
C34_Witness ==
  /\ client.phase = "finished" /\ ~client.failed
  /\ client.concurrency = 2
  /\ client.skip = {0} /\ client.before = {1}
  /\ client.calls[2] = 1
  /\ client.uploaded = TotalChunks

\* C39: once sendAll has rejected with the status "error", a chunk that was
\* still in flight and completes leaves the status "error".
C39_ErrorStaysUntilReset ==
  [][\A index \in ClientChunks :
       (FnReturns(index) /\ client.phase = "rejected" /\ client.status = "error")
         => client'.status = "error"]_vars

(***************************************************************************)
(* POST /transfer (src/src/handlers/files.ts) and getUniquePath.  The       *)
(* handler's awaits are the points where another transfer may run.          *)
(***************************************************************************)
\* the loop of getUniquePath: the first "-NN" for which access() throws, else
\* the timestamp name
RECURSIVE Probe(_, _)
Probe(listing, i) ==
  IF i > MaxSuffix THEN TimestampName
  ELSE IF At(listing, Pad2(i)) = NoContent THEN Pad2(i)
       ELSE Probe(listing, i + 1)

getUniquePathBlind(listing) == Probe(listing, 1)

\* getUniquePath(targetPath), the directory of targetPath being `listing`
getUniquePath(listing) ==
  IF At(listing, TargetName) = NoContent THEN TargetName ELSE Probe(listing, 1)

OkResult == [ok |-> TRUE, status |-> 200, error |-> ""]

\* validatePath(to): realpath(to) or, when `to` does not exist, of its parent
validateTo(toBase) ==
  IF tSub[toBase] THEN OkResult
  ELSE [ok |-> FALSE, status |-> 404, error |-> "parent path not found"]

\* validateSameBase(from, to); `from` lies at the top of the first base
validateSameBaseAlways(toBase) == OkResult

validateSameBase(toBase) ==
  IF ~validateTo(toBase).ok THEN validateTo(toBase)
  ELSE IF toBase # SourceBase
       THEN [ok |-> FALSE, status |-> 400, error |-> "cross-basepath not allowed"]
       ELSE OkResult

\* ownerUid != null && ownerGid != null && fileMode != null ? {...} : null
ownership(own) == own.uid /\ own.gid /\ own.mode

CrossBaseCopyError == "cross-base copy requires ownership (ownerUid, ownerGid, fileMode)"

\* c.json({error}, status), or c.json(info) with status 200: the slot keeps the
\* request's mode, destination base and answer, and the ownership fields of a
\* request answered before a target path was chosen (in flight, `own` is the
\* handler's `ownership`: all fields or null)
Respond(t, r, own, status, error) ==
  [tReq EXCEPT ![t] = [IdleTransfer EXCEPT !.pc = "done", !.mode = r.mode,
                                          !.toBase = r.toBase, !.own = own,
                                          !.status = status, !.error = error]]

TransferFree(t) == tReq[t].pc \in {"idle", "done"}

\* a POST /transfer arrives; up to the stat of the source:
\* move: validateSameBase, stat; copy: validateSameBase and stat, or for another
\* base the ownership test, validatePath(to, {createParents, ownership}), stat
TransferValidate(t, mode, src, toBase, unique, own) ==
  /\ TransferFree(t) /\ (t = "t2" => ~TransferFree("t1"))
  /\ tIssued < MaxTransfers
  /\ tIssued' = tIssued + 1
  /\ LET r == [IdleTransfer EXCEPT !.pc = "pick", !.mode = mode, !.src = src,
                                   !.toBase = toBase, !.unique = unique,
                                   !.own = IF ownership(own) THEN FullOwnership
                                           ELSE NoOwnership]
         same == validateSameBase(toBase)
         afterStat == IF tSrc[src] = NoContent
                      THEN Respond(t, r, own, 404, "source not found")
                      ELSE [tReq EXCEPT ![t] = r]
     IN IF mode = "move"
        THEN /\ tReq' = IF ~same.ok THEN Respond(t, r, own, same.status, same.error)
                        ELSE afterStat
             /\ UNCHANGED tSub
        ELSE IF same.ok
             THEN /\ tReq' = afterStat
                  /\ UNCHANGED tSub
             ELSE IF ~ownership(own)
                  THEN /\ tReq' = Respond(t, r, own, 400, CrossBaseCopyError)
                       /\ UNCHANGED tSub
                  ELSE /\ tSub' = [tSub EXCEPT ![toBase] = TRUE]
                       /\ tReq' = afterStat
  /\ UNCHANGED <<pathVars, uploadVars, indexVars, poolVars, clientVars>>
  /\ UNCHANGED <<tSrc, tDst>>

\* targetPath = ensureUniqueName ? await getUniquePath(realTo) : realTo
\* (applying the ownership after the rename or copy is not modelled)
TransferPick(t) ==
  /\ tReq[t].pc = "pick"
  /\ tReq' = [tReq EXCEPT ![t].pc = "commit", ![t].own = NoOwnership,
                          ![t].target = IF tReq[t].unique
                                        THEN getUniquePath(tDst[tReq[t].toBase])
                                        ELSE TargetName]
  /\ UNCHANGED <<pathVars, uploadVars, indexVars, poolVars, clientVars>>
  /\ UNCHANGED <<tSub, tSrc, tDst, tIssued>>

\* mkdir(join(targetPath, ".."), {recursive: true}); rename or cp (both throw
\* when the source is gone, both replace a file at targetPath); respond
TransferCommit(t) ==
  /\ tReq[t].pc = "commit"
  /\ LET r == tReq[t] IN
     /\ tSub' = [tSub EXCEPT ![r.toBase] = TRUE]
     /\ IF tSrc[r.src] = NoContent
        THEN /\ tReq' = Respond(t, r, NoOwnership, 500, "ENOENT")
             /\ UNCHANGED <<tSrc, tDst>>
        ELSE /\ tDst' = [tDst EXCEPT ![r.toBase] = Put(tDst[r.toBase], r.target, tSrc[r.src])]
             /\ tSrc' = IF r.mode = "move" THEN [tSrc EXCEPT ![r.src] = NoContent] ELSE tSrc
             /\ tReq' = Respond(t, r, NoOwnership, 200, "")
  /\ UNCHANGED <<pathVars, uploadVars, indexVars, poolVars, clientVars>>
  /\ UNCHANGED tIssued

\* ownerUid, ownerGid, fileMode of a request: all given, none, or one missing
OwnershipFields ==
  {FullOwnership, NoOwnership, [FullOwnership EXCEPT !.uid = FALSE],
   [FullOwnership EXCEPT !.gid = FALSE], [FullOwnership EXCEPT !.mode = FALSE]}

NextTransfer ==
  \/ \E t \in TSlots, mode \in {"move", "copy"}, src \in SrcNames, toBase \in Bases,
        unique \in BOOLEAN, own \in OwnershipFields :
       TransferValidate(t, mode, src, toBase, unique, own)
  \/ \E t \in TSlots : TransferPick(t)
  \/ \E t \in TSlots : TransferCommit(t)

\* the destination directory may be missing, empty, or hold the requested name
\* and its first suffixed name already
InitTransfer ==
  /\ InitUploadVars
  /\ InitPoolVars
  /\ InitClientVars
  /\ InitIndexVars
  /\ fs = Skeleton
  /\ realBaseCache = [b \in {} |-> NoPath]
  /\ lastReq = NoRequest
  /\ tSub \in [Bases -> BOOLEAN]
  /\ tDst \in [Bases -> {Listing({}), Listing({TargetName}), Listing({TargetName, Pad2(1)})}]
  /\ \A b \in Bases : ~tSub[b] => tDst[b] = EmptyListing
  /\ tSrc = SrcContent
  /\ tReq = [t \in TSlots |-> IdleTransfer]
  /\ tIssued = 0

SpecTransfer == InitTransfer /\ [][NextTransfer]_vars

\* getUniquePath on its own: directories in which the requested name exists or
\* not, "-01" to "-<k>" exist, and one of them (h) may be missing
Taken(t, k, h) ==
  (IF t THEN {TargetName} ELSE {}) \cup {Pad2(i) : i \in (1..k) \ {h}}

UniqueInputs ==
  {Listing(Taken(t, k, h)) : t \in BOOLEAN, k \in 0..MaxSuffix, h \in 0..MaxSuffix}

GetUniquePathCall ==
  /\ tReq["t1"].pc = "idle"
  /\ tReq' = [tReq EXCEPT !["t1"].pc = "commit", !["t1"].unique = TRUE,
                          !["t1"].target = getUniquePath(tDst[SourceBase])]
  /\ UNCHANGED <<pathVars, uploadVars, indexVars, poolVars, clientVars>>
  /\ UNCHANGED <<tSub, tSrc, tDst, tIssued>>

NextUnique == GetUniquePathCall

InitUnique ==
  /\ InitUploadVars
  /\ InitPoolVars
  /\ InitClientVars
  /\ InitIndexVars
  /\ fs = Skeleton
  /\ realBaseCache = [b \in {} |-> NoPath]
  /\ lastReq = NoRequest
  /\ tSub = [b \in Bases |-> TRUE]
  /\ tDst \in {[b \in Bases |-> IF b = SourceBase THEN l ELSE EmptyListing] :
                l \in UniqueInputs}
  /\ tSrc = SrcContent
  /\ tReq = [t \in TSlots |-> IdleTransfer]
  /\ tIssued = 0

SpecUnique == InitUnique /\ [][NextUnique]_vars

(***************************************************************************)
(* Claims about transfers.                                                 *)
(***************************************************************************)
\* C16: the step in which a transfer with ensureUniqueName = true puts its file
\* at the destination leaves every file that was in the destination directory
\* as it was, also when another transfer runs at the same time.
C16_UniqueTransferNeverOverwrites ==
  [][\A t \in TSlots :
       tReq[t].pc = "commit" /\ tReq[t].unique /\ tReq'[t].pc = "done"
       => \A b \in Bases : \A n \in DOMAIN tDst[b] :
            At(tDst'[b], n) = tDst[b][n]]_vars

\* the "-NN" numbers free in a directory
FreeSuffixes(listing) == {i \in 1..MaxSuffix : Pad2(i) \notin DOMAIN listing}

Smallest(S) == CHOOSE i \in S : \A j \in S : i <= j

\* C17: getUniquePath(P) is P when nothing exists at P; else "-NN" with the
\* smallest NN of 01..99 at which nothing exists; the timestamp name only when
\* all 99 exist.
C17_UniquePathIsSmallestFree ==
  tReq["t1"].pc = "commit" =>
    LET listing == tDst[SourceBase]
        result == tReq["t1"].target
    IN /\ TargetName \notin DOMAIN listing => result = TargetName
       /\ TargetName \in DOMAIN listing /\ FreeSuffixes(listing) # {}
            => result = Pad2(Smallest(FreeSuffixes(listing)))
       /\ TargetName \in DOMAIN listing /\ FreeSuffixes(listing) = {}
            => result = TimestampName
       /\ result = TimestampName => FreeSuffixes(listing) = {}

\* the requested name and "-01" to "-41" exist, "-42" does not: "-42" is returned
C17_Witness ==
  /\ tReq["t1"].pc = "commit"
  /\ TargetName \in DOMAIN tDst[SourceBase]
  /\ FreeSuffixes(tDst[SourceBase]) = {42} \cup (60..MaxSuffix)
  /\ tReq["t1"].target = <<4, 2>>

\* C18: a copy into another base that lacks one of ownerUid, ownerGid, fileMode
\* is answered 400 with the cross-base copy error in the step that receives it,
\* and that step creates no file and no directory.
C18_CrossBaseCopyNeedsOwnership ==
  [][\A t \in TSlots :
       ( /\ tReq'[t] # tReq[t] /\ TransferFree(t)
         /\ tReq'[t].mode = "copy" /\ tReq'[t].toBase # SourceBase
         /\ ~(tReq'[t].own.uid /\ tReq'[t].own.gid /\ tReq'[t].own.mode) )
       => /\ tReq'[t].pc = "done"
          /\ tReq'[t].status = 400
          /\ tReq'[t].error = CrossBaseCopyError
          /\ tSub' = tSub
          /\ tDst' = tDst]_vars

\* a copy into the other base, with its parent directory missing there and the
\* file mode not given, has been answered 400
C18_Witness ==
  \E t \in TSlots :
    /\ tReq[t].pc = "done" /\ tReq[t].mode = "copy" /\ tReq[t].toBase # SourceBase
    /\ tReq[t].own.uid /\ tReq[t].own.gid /\ ~tReq[t].own.mode
    /\ tReq[t].status = 400 /\ tReq[t].error = CrossBaseCopyError
    /\ ~tSub[tReq[t].toBase]

\* C19: a move into another base is answered 403 or 404.
C19_CrossBaseMoveForbidden ==
  \A t \in TSlots :
    tReq[t].pc = "done" /\ tReq[t].mode = "move" /\ tReq[t].toBase # SourceBase
    => tReq[t].status \in {403, 404}

(***************************************************************************)
(* removeFromIndexRecursive (src/unnamed/part_001, 177-193) on the default  *)
(* database, SQLite (config.indexDatabaseUrl).  A rel_path is the sequence  *)
(* of its characters; the table is held in fileIndex as rows               *)
(* (base_path, rel_path), the columns the DELETE looks at.                  *)
(***************************************************************************)
\* the characters of a directory name: a letter in both cases and the three
\* characters LIKE gives a meaning to
NameChars == {"a", "A", "_", "%", "\\"}

DirNames == UNION {[1..k -> NameChars] : k \in 1..MaxNameLen}

\* the path of the entry "a" inside directory n
Child(n) == n \o <<"/", "a">>

\* value.replace(/[\\%_]/g, "\\$&")
RECURSIVE escapeLike(_)
escapeLike(value) ==
  IF value = <<>> THEN <<>>
  ELSE (IF Head(value) \in {"\\", "%", "_"} THEN <<"\\", Head(value)>> ELSE <<Head(value)>>)
       \o escapeLike(Tail(value))

\* SQLite compares the letters of a LIKE pattern without regard to case
Fold(c) == IF c = "A" THEN "a" ELSE c

\* str LIKE pat ESCAPE '\': % is any run of characters, _ any one character,
\* the character after the escape character stands for itself
RECURSIVE Like(_, _)
Like(str, pat) ==
  IF pat = <<>> THEN str = <<>>
  ELSE IF Head(pat) = "\\"
  THEN /\ Len(pat) >= 2 /\ str # <<>>
       /\ Fold(Head(str)) = Fold(pat[2])
       /\ Like(Tail(str), Tail(Tail(pat)))
  ELSE IF Head(pat) = "%"
  THEN Like(str, Tail(pat)) \/ (str # <<>> /\ Like(Tail(str), pat))
  ELSE IF Head(pat) = "_"
  THEN str # <<>> /\ Like(Tail(str), Tail(pat))
  ELSE /\ str # <<>> /\ Fold(Head(str)) = Fold(Head(pat))
       /\ Like(Tail(str), Tail(pat))

\* removeFromIndexRecursive(basePath, relPath): the rows that are left
removeFromIndexRecursive(rows, basePath, relPath) ==
  IF relPath = <<>> THEN {r \in rows : r.base # basePath}
  ELSE LET likePattern == escapeLike(relPath) \o <<"/", "%">> IN
       {r \in rows : ~(/\ r.base = basePath
                       /\ (r.path = relPath \/ Like(r.path, likePattern)))}

\* two directories with an entry each, indexed in both bases
Table(n1, n2) ==
  {[base |-> b, path |-> q] : b \in Bases, q \in {n1, Child(n1), n2, Child(n2)}}

\* DELETE /delete of a directory that has a row: removeFromIndexRecursive
RemoveRecursiveCall(basePath, relPath) ==
  /\ \E r \in fileIndex : r.base = basePath /\ r.path = relPath
  /\ fileIndex' = removeFromIndexRecursive(fileIndex, basePath, relPath)
  /\ UNCHANGED <<pathVars, uploadVars, transferVars, poolVars, clientVars, calls>>
  /\ UNCHANGED <<disk, dirMtime, nextIno, moves, scanState, nextId, scan, lastOutcome,
                 firstId, scanHist>>

NextLike == \E b \in Bases, rel \in DirNames : RemoveRecursiveCall(b, rel)

InitLike ==
  /\ fileIndex \in {Table(n1, n2) : n1 \in DirNames, n2 \in DirNames}
  /\ disk = [e \in Entries |-> NoFile]
  /\ dirMtime = [d \in Dirs |-> 0]
  /\ nextIno = 1 /\ moves = 0 /\ nextId = 1
  /\ scanState = [d \in Dirs |-> NoScanState]
  /\ scan = IdleScan /\ lastOutcome = NoOutcome
  /\ firstId = [i \in Inodes |-> 0]
  /\ scanHist = NoScanHist
  /\ calls = [c \in Callers |-> IdleCall]
  /\ InitUploadVars
  /\ InitPoolVars
  /\ InitClientVars
  /\ InitTransferVars
  /\ fs = Skeleton
  /\ realBaseCache = [b \in {} |-> NoPath]
  /\ lastReq = NoRequest

SpecLike == InitLike /\ [][NextLike]_vars

\* C24: removeFromIndexRecursive(base, rel) deletes exactly the rows of base
\* whose path is rel or begins with rel followed by "/", and leaves every
\* other row, the rows of the other base included, as it was.
C24_RecursiveRemoveIsExact ==
  [][\A b \in Bases, rel \in DirNames :
       RemoveRecursiveCall(b, rel) =>
         fileIndex' = {r \in fileIndex :
                         ~(r.base = b /\ (r.path = rel \/ IsPrefix(rel \o <<"/">>, r.path)))}]_vars

====
